---- MODULE Spec2Model ----
(***************************************************************************)
(* A model of github.com/gsoultan/gsmail.                                  *)
(*                                                                         *)
(* The module holds one state machine per component:                       *)
(*   - Retry (provider.go): SpecRetry                                      *)
(*   - BackgroundSender (background.go): SpecBackground / FairBackground   *)
(*   - the SMTP connection Pool (smtp/pool.go): SpecPool                   *)
(*   - the interceptor chains (middleware.go): SpecMiddleware              *)
(*   - the package-level operations (gsmail.go): SpecApi                   *)
(*   - CheckDomainHealth (health.go): SpecDomainHealth                     *)
(*   - one SMTP submission attempt (smtp/smtp.go): SpecSession             *)
(*   - the IMAP fetch pipeline (imap/imap.go): SpecFetch / FairFetch       *)
(*   - IMAP Idle (imap/imap.go): SpecImapIdle / FairImapIdle               *)
(*   - POP3 receive (pop3/pop3.go): SpecPop                                *)
(*   - ValidateEmailExistence (utils.go): SpecValidation                   *)
(*   - Send of the SMTP and SES senders under Retry: SpecSending           *)
(*   - verifyExistence with its caller (utils.go): SpecProbe               *)
(*   - the SES Sender's getClient (ses/ses.go): SpecGetClient              *)
(* Each specification leaves the variables of the other components at      *)
(* their initial values.                                                   *)
(***************************************************************************)
EXTENDS Integers, Naturals, Sequences, FiniteSets, TLC

VARIABLES
    \* ---- Retry (provider.go) ----
    config,        \* the RetryConfig passed to Retry
    retryPc,       \* position of the Retry call
    retry_i,       \* the loop variable i
    interval,      \* the local variable interval
    lastErr,       \* the local variable lastErr
    retryResult,   \* the value Retry returned (once retryPc = "done")
    ctxDone,       \* the caller's context is cancelled
    calls,         \* number of invocations of fn so far
    outcomes,      \* outcome of every finished invocation of fn, in order
    waits,         \* the waits between attempts that ran to their end
    ctxAtReturn,   \* for every failed invocation: was ctx cancelled when it returned
    \* ---- BackgroundSender (background.go) ----
    bufferSize,    \* the bufferSize given to NewBackgroundSender
    queue,         \* the buffer of s.queue
    queueClosed,   \* s.queue is closed
    errChan,       \* the buffer of s.errChan
    errClosed,     \* s.errChan is closed
    bgCtxDone,     \* s.ctx is cancelled
    wg,            \* the counter of s.wg
    workerPc,      \* position of every worker goroutine
    workerEmail,   \* the email a worker holds (0: none)
    stopPc,        \* position of every call of Stop
    nextEmail,     \* the email the next call of Send will offer
    sendResult,    \* what Send(email) returned: "none", "true", "false", "panic"
    sentAfterStop, \* Send(email) was called after a call of Stop had begun
    handed,        \* how often an email was passed to the wrapped Sender
    ctxAtHandover, \* s.ctx was cancelled when the email was passed on
    lastReport,    \* the latest error report: <<email, "queued" | "handed" | "dropped">>
    fault,         \* the runtime faults (panics) raised so far
    \* ---- Pool (smtp/pool.go) ----
    givenConfig,   \* the PoolConfig given to NewPool
    poolConfig,    \* p.config
    idle,          \* p.idle: pooledClient records, oldest first
    open,          \* p.open
    closed,        \* p.closed
    now,           \* the clock read by time.Now / time.Since
    nextConn,      \* the connection the next successful dial creates
    borrowed,      \* the connections handed out by Get and not yet returned
    dialing,       \* the calls of Get that are inside p.dialer
    returning,     \* the connections of the calls of Put between Reset and the lock
    alive,         \* the connection answers NOOP
    quits,         \* per connection: calls of client.Quit() by the pool
    closes,        \* per connection: calls of client.Close() by the pool
    closeSeq,      \* flips at every call of Pool.Close
    lastGet,       \* what the latest call of Get did under the lock
    \* ---- interceptor chains (middleware.go) ----
    mwOp,          \* "Send" or "Receive"
    mwChain,       \* the interceptors given to WrapSender / WrapReceiver
    mwSender,      \* the value WrapSender / WrapReceiver returned
    mwStack,       \* the call stack: the wrapped values whose method is running
    mwFlow,        \* control: about to enter, inside, returning or unwinding
    mwTrace,       \* the entries and exits so far, in order
    mwRet,         \* per layer: how its call ended
    \* ---- package-level operations (gsmail.go) ----
    apiCall,       \* the operation called, its provider argument and context
    apiPc,         \* where the call is
    apiErr,        \* the error the call returned
    apiProviderCalls, \* the calls of provider methods made
    apiEmailChan,  \* Idle: the email stream made for a nil Receiver
    apiErrChan,    \* Idle: the error stream made for a nil Receiver
    apiReads,      \* what the caller has received from the two streams
    \* ---- CheckDomainHealth (health.go) ----
    dhInput,       \* the domain and the number of DKIM selectors
    dhCtxDone,     \* ctx is cancelled
    dhCancelEarly, \* ctx was cancelled before every result was collected
    dhLookupPc,    \* per lookup goroutine: where it is
    dhWg,          \* the WaitGroup counter
    dhClosed,      \* resChan is closed
    dhCollected,   \* the lookups whose result is stored in health
    dhPc,          \* the collecting loop: running or returned
    dhErr,         \* the error CheckDomainHealth returned
    \* ---- one SMTP submission / IMAP authentication (smtp.go, imap.go) ----
    sesCfg,        \* the Sender / Receiver fields and the email's recipients
    sesPc,         \* where the attempt is
    sesTls,        \* tlsOn
    sesDialed,     \* the attempt dialed its connection
    sesLog,        \* the commands of this attempt: <<command, argument, ok>>
    sesErr,        \* the error the attempt returned
    sesAttempt,    \* the number of this attempt
    \* ---- Receiver.fetch (imap/imap.go) ----
    fetch,         \* the channels, goroutines and locals of one call of fetch
    \* ---- Receiver.Idle (imap/imap.go) ----
    imapIdle,      \* the streams, the background task and its locals of one call of Idle
    \* ---- Receiver.receive (pop3/pop3.go) ----
    pop,           \* the locals, the result and the commands of one call of receive
    \* ---- ValidateEmailExistence (utils.go) ----
    validation,    \* the locals, the result and the lookups and probes of one call of ValidateEmailExistence
    \* ---- Sender.Send of SMTP and SES (smtp/smtp.go and the ses package) ----
    sending,       \* one call of Send of a signing Sender: the retry loop, its closure and the calls made
    \* ---- verifyExistence (utils.go) ----
    probe,         \* one call of verifyExistence: where it is, the commands issued, the closes and the result
    \* ---- Sender.getClient (ses) ----
    sesClient      \* the lazily built SES client and its RWMutex

retryVars == <<config, retryPc, retry_i, interval, lastErr, retryResult,
               ctxDone, calls, outcomes, waits, ctxAtReturn>>

bgVars == <<bufferSize, queue, queueClosed, errChan, errClosed, bgCtxDone, wg,
            workerPc, workerEmail, stopPc, nextEmail, sendResult,
            sentAfterStop, handed, ctxAtHandover, lastReport, fault>>

poolVars == <<givenConfig, poolConfig, idle, open, closed, now, nextConn, borrowed, dialing,
              returning, alive, quits, closes, closeSeq, lastGet>>

mwVars == <<mwOp, mwChain, mwSender, mwStack, mwFlow, mwTrace, mwRet>>

apiVars == <<apiCall, apiPc, apiErr, apiProviderCalls, apiEmailChan,
             apiErrChan, apiReads>>

dhVars == <<dhInput, dhCtxDone, dhCancelEarly, dhLookupPc, dhWg, dhClosed,
            dhCollected, dhPc, dhErr>>

sesVars == <<sesCfg, sesPc, sesTls, sesDialed, sesLog, sesErr, sesAttempt>>

fetchVars == <<fetch>>

imapIdleVars == <<imapIdle>>

popVars == <<pop>>

validationVars == <<validation>>

sendingVars == <<sending>>

probeVars == <<probe>>

getClientVars == <<sesClient>>

vars == <<retryVars, bgVars, poolVars, mwVars, apiVars, dhVars, sesVars, fetchVars, imapIdleVars, popVars, validationVars, sendingVars, probeVars, getClientVars>>

\* the variables of the other components
nonRetryVars == <<bgVars, poolVars, mwVars, apiVars, dhVars, sesVars, fetchVars, imapIdleVars, popVars, validationVars, sendingVars, probeVars, getClientVars>>
nonBgVars == <<retryVars, poolVars, mwVars, apiVars, dhVars, sesVars, fetchVars, imapIdleVars, popVars, validationVars, sendingVars, probeVars, getClientVars>>
nonPoolVars == <<retryVars, bgVars, mwVars, apiVars, dhVars, sesVars, fetchVars, imapIdleVars, popVars, validationVars, sendingVars, probeVars, getClientVars>>
nonMwVars == <<retryVars, bgVars, poolVars, apiVars, dhVars, sesVars, fetchVars, imapIdleVars, popVars, validationVars, sendingVars, probeVars, getClientVars>>
nonApiVars == <<retryVars, bgVars, poolVars, mwVars, dhVars, sesVars, fetchVars, imapIdleVars, popVars, validationVars, sendingVars, probeVars, getClientVars>>
nonDhVars == <<retryVars, bgVars, poolVars, mwVars, apiVars, sesVars, fetchVars, imapIdleVars, popVars, validationVars, sendingVars, probeVars, getClientVars>>
nonSesVars == <<retryVars, bgVars, poolVars, mwVars, apiVars, dhVars, fetchVars, imapIdleVars, popVars, validationVars, sendingVars, probeVars, getClientVars>>
nonFetchVars == <<retryVars, bgVars, poolVars, mwVars, apiVars, dhVars, sesVars, imapIdleVars, popVars, validationVars, sendingVars, probeVars, getClientVars>>
nonImapIdleVars == <<retryVars, bgVars, poolVars, mwVars, apiVars, dhVars, sesVars, fetchVars, popVars, validationVars, sendingVars, probeVars, getClientVars>>
nonPopVars == <<retryVars, bgVars, poolVars, mwVars, apiVars, dhVars, sesVars, fetchVars, imapIdleVars, validationVars, sendingVars, probeVars, getClientVars>>
nonValidationVars == <<retryVars, bgVars, poolVars, mwVars, apiVars, dhVars, sesVars, fetchVars, imapIdleVars, popVars, sendingVars, probeVars, getClientVars>>
nonSendingVars == <<retryVars, bgVars, poolVars, mwVars, apiVars, dhVars, sesVars, fetchVars, imapIdleVars, popVars, validationVars, probeVars, getClientVars>>
nonProbeVars == <<retryVars, bgVars, poolVars, mwVars, apiVars, dhVars, sesVars, fetchVars, imapIdleVars, popVars, validationVars, sendingVars, getClientVars>>
\* the variables of the components other than the probe and its caller
nonExistenceVars == <<retryVars, bgVars, poolVars, mwVars, apiVars, dhVars, sesVars, fetchVars, imapIdleVars, popVars, sendingVars, getClientVars>>
nonGetClientVars == <<retryVars, bgVars, poolVars, mwVars, apiVars, dhVars, sesVars, fetchVars, imapIdleVars, popVars, validationVars, sendingVars, probeVars>>

----------------------------------------------------------------------------
(* Bounds of the model *)

MaxRetriesBound == 2
MaxIntervalBound == 4
MaxBuffer == 2
MaxWorkers == 2
MaxEmails == 2
MaxStops == 1
MaxConns == 3
MaxTime == 2
MaxInterceptors == 2
MaxReads == 2
MaxSelectors == 1
MaxPerField == 1
MaxAttempts == 2
MaxLimit == 2
MaxUpdates == 2
MaxUnseen == 11
MaxPopLimit == 3
MaxCount == 3
MaxMx == 3
MaxCallers == 2
MaxCalls == 2

----------------------------------------------------------------------------
(* Error values *)

NilErr == <<"nil", 0>>
CtxErr == <<"context.Canceled", 0>>
\* the error returned by the k-th invocation of the operation
OpErr(k) == <<"op", k>>

Min(a, b) == IF a < b THEN a ELSE b

----------------------------------------------------------------------------
(* The state of each component right after construction *)

Workers == 1 .. MaxWorkers
Emails == 1 .. MaxEmails
Stoppers == 1 .. MaxStops

\* NewBackgroundSender(sender, size), background.go
NewBackgroundSender(size) ==
    /\ bufferSize = size
    /\ queue = <<>>
    /\ queueClosed = FALSE
    /\ errChan = <<>>
    /\ errClosed = FALSE
    /\ bgCtxDone = FALSE
    /\ wg = 0
    /\ workerPc = [w \in Workers |-> "none"]
    /\ workerEmail = [w \in Workers |-> 0]
    /\ stopPc = [c \in Stoppers |-> "idle"]
    /\ nextEmail = 1
    /\ sendResult = [e \in Emails |-> "none"]
    /\ sentAfterStop = [e \in Emails |-> FALSE]
    /\ handed = [e \in Emails |-> 0]
    /\ ctxAtHandover = [e \in Emails |-> FALSE]
    /\ lastReport = <<0, "none">>
    /\ fault = {}

Conns == 1 .. MaxConns

\* NewPool(config, dialer), pool.go: a MaxIdle <= 0 becomes 2
DefaultMaxIdle == 2

NormalizedMaxIdle(maxIdle) == IF maxIdle <= 0 THEN DefaultMaxIdle ELSE maxIdle

NewPool(cfg) ==
    /\ givenConfig = cfg
    /\ poolConfig = [cfg EXCEPT !.MaxIdle = NormalizedMaxIdle(cfg.MaxIdle)]
    /\ idle = <<>>
    /\ open = 0
    /\ closed = FALSE
    /\ now = 0
    /\ nextConn = 1
    /\ borrowed = {}
    /\ dialing = 0
    /\ returning = {}
    /\ alive = [c \in Conns |-> TRUE]
    /\ quits = [c \in Conns |-> 0]
    /\ closes = [c \in Conns |-> 0]
    /\ closeSeq = 0
    /\ lastGet = [seq |-> 0, outcome |-> "none"]

IdlePoolConfig == [MaxIdle |-> 0, MaxOpen |-> 0, IdleTimeout |-> 0]

\* the entry state of Retry(ctx, cfg, fn)
RetryEntry(cfg, cancelled) ==
    /\ config = cfg
    /\ retryPc = "check"
    /\ retry_i = 0
    /\ interval = cfg.InitialInterval
    /\ lastErr = NilErr
    /\ retryResult = NilErr
    /\ ctxDone = cancelled
    /\ calls = 0
    /\ outcomes = <<>>
    /\ waits = <<>>
    /\ ctxAtReturn = <<>>

IdleRetryConfig ==
    [MaxRetries |-> 2, InitialInterval |-> 1, MaxInterval |-> 2,
     Multiplier |-> <<2, 1>>]

\* the transport: a Sender / Receiver that wraps nothing
Transport == [Sender |-> <<>>, interceptor |-> [id |-> 0, kind |-> "transport"]]

\* the interceptor values of a list of kinds; id is the position in the list
Interceptors(kinds) ==
    [k \in 1 .. Len(kinds) |-> [id |-> k, kind |-> kinds[k]]]

\* the loop of WrapSender:  for i := len(interceptors) - 1; i >= 0; i--
RECURSIVE WrapLoopForward(_, _, _)
WrapLoopForward(s, interceptors, i) ==
    IF i < 1 THEN s
    ELSE WrapLoopForward([Sender |-> s,
                          interceptor |-> interceptors[Len(interceptors) + 1 - i]],
                         interceptors, i - 1)
RECURSIVE WrapLoop(_, _, _)
WrapLoop(s, interceptors, i) ==
    IF i < 1 THEN s
    ELSE WrapLoop([Sender |-> s, interceptor |-> interceptors[i]],
                  interceptors, i - 1)

WrapSender(s, interceptors) == WrapLoop(s, interceptors, Len(interceptors))
WrapReceiver(r, interceptors) == WrapLoop(r, interceptors, Len(interceptors))

Layers == 0 .. MaxInterceptors

NoValue == [err |-> "none", by |-> 0]

\* a wrapped Sender or Receiver before its method is called
Wrapped(op, kinds) ==
    /\ mwOp = op
    /\ mwChain = kinds
    /\ mwSender = IF op = "Send"
                  THEN WrapSender(Transport, Interceptors(kinds))
                  ELSE WrapReceiver(Transport, Interceptors(kinds))
    /\ mwStack = <<>>
    /\ mwFlow = [mode |-> "idle", value |-> NoValue]
    /\ mwTrace = <<>>
    /\ mwRet = [l \in Layers |-> NoValue]

\* a channel not made yet
NoChan == [cap |-> 0, buf |-> <<>>, closed |-> FALSE, made |-> FALSE]

\* a package-level operation is called
ApiEntry(op, arg, done) ==
    /\ apiCall = [op |-> op, arg |-> arg, ctxDone |-> done]
    /\ apiPc = "start"
    /\ apiErr = "none"
    /\ apiProviderCalls = <<>>
    /\ apiEmailChan = NoChan
    /\ apiErrChan = NoChan
    /\ apiReads = [email |-> <<>>, err |-> <<>>]

\* the lookups CheckDomainHealth starts: MX, SPF, DMARC, one per selector
FixedLookups == 3
LookupIds == 1 .. FixedLookups + MaxSelectors
Lookups(nsel) == 1 .. FixedLookups + nsel

\* CheckDomainHealth(ctx, domain, selectors) is called; for a non-empty
\* domain the state is the one at the head of the collecting loop, every
\* goroutine started
DomainHealthEntry(domain, nsel, cancelled) ==
    /\ dhInput = [domain |-> domain, selectors |-> nsel]
    /\ dhCtxDone = cancelled
    /\ dhCancelEarly = cancelled
    /\ dhLookupPc = [l \in LookupIds |->
                       IF domain # "" /\ l \in Lookups(nsel) THEN "lookup"
                       ELSE "absent"]
    /\ dhWg = IF domain = "" THEN 0 ELSE FixedLookups + nsel
    /\ dhClosed = FALSE
    /\ dhCollected = {}
    /\ dhPc = IF domain = "" THEN "check" ELSE "collect"
    /\ dhErr = "none"

\* the first attempt of a submission (or of an IMAP operation) begins
SessionEntry(cfg) ==
    /\ sesCfg = cfg
    /\ sesPc = "start"
    /\ sesTls = FALSE
    /\ sesDialed = FALSE
    /\ sesLog = <<>>
    /\ sesErr = <<"none", "">>
    /\ sesAttempt = 1

IdleSessionConfig ==
    [protocol |-> "smtp", pooled |-> FALSE, SSL |-> FALSE,
     AuthMethod |-> "none", AllowInsecureAuth |-> FALSE,
     TokenSource |-> FALSE, To |-> <<>>, Cc |-> <<>>, Bcc |-> <<>>]

\* numWorkers := 10; if limit < numWorkers { numWorkers = limit }
DefaultNumWorkers == 10
NumWorkers(limit) == IF limit < DefaultNumWorkers THEN limit ELSE DefaultNumWorkers

\* no message held by a worker
NoMessage == [idx |-> -1, msg |-> "none"]

\* fetch(ctx, c, seqset, limit) has made its channels and started its
\* goroutines; the server will send the messages of served, in this order
FetchEntry(limit, served) ==
    fetch = [limit |-> limit,
             served |-> served,
             sent |-> 0,
             fetchMessages |-> <<>>,
             fetchClosed |-> FALSE,
             done |-> <<>>,
             held |-> "none",
             count |-> 0,
             messages |-> <<>>,
             messagesClosed |-> FALSE,
             worker |-> [w \in 1 .. NumWorkers(limit) |-> "range"],
             res |-> [w \in 1 .. NumWorkers(limit) |-> NoMessage],
             wg |-> NumWorkers(limit),
             results |-> <<>>,
             resultsClosed |-> FALSE,
             emailsMap |-> {},
             fetchErr |-> "nil",
             ctxDone |-> FALSE,
             pc |-> "collect",
             emails |-> <<>>,
             err |-> "nil"]

\* emailChan := make(chan gsmail.Email, 10); errChan := make(chan error, 1)
EmailChanCapacity == 10
ErrChanCapacity == 1

\* Idle(ctx) has made its two streams and started its background task
ImapIdleEntry ==
    imapIdle = [pc |-> "connect",
                connected |-> FALSE,
                emailChan |-> [buf |-> <<>>, closed |-> FALSE],
                errChan |-> [buf |-> <<>>, closed |-> FALSE],
                err |-> "nil",
                errWrites |-> 0,
                ctxDone |-> FALSE,
                idling |-> FALSE,
                stopClosed |-> FALSE,
                done |-> <<>>,
                updates |-> 0,
                updatesSent |-> 0,
                emails |-> <<>>,
                nextUid |-> 1,
                dropped |-> 0]

\* receive(ctx, limit) begins; the mailbox holds count messages
PopEntry(limit, count) ==
    pop = [limit |-> limit,
           mailbox |-> count,
           pc |-> "dial",
           count |-> 0,
           i |-> 0,
           emails |-> <<>>,
           err |-> "none",
           ctxDone |-> FALSE,
           quit |-> 0,
           log |-> <<>>]

\* ValidateEmailExistence(ctx, email) begins; valid and disposable are what
\* IsValidEmail(email) and IsDisposableEmail(email) answer
ValidationEntry(valid, disposable) ==
    validation = [valid |-> valid,
                  disposable |-> disposable,
                  pc |-> "check",
                  mxs |-> <<>>,
                  next |-> 1,
                  lastErr |-> <<"nil">>,
                  err |-> <<"none">>,
                  lookups |-> 0,
                  probes |-> <<>>]

\* Send(ctx, email) of an SMTP or SES Sender begins; dkim: p.DKIMConfig is
\* set; raw: the email has attachments or both bodies (SES builds a raw
\* message only then)
SendingEntry(provider, dkim, raw, maxRetries) ==
    sending = [provider |-> provider,
               dkim |-> dkim,
               raw |-> raw,
               MaxRetries |-> maxRetries,
               pc |-> IF provider = "smtp" THEN "build" ELSE "check",
               i |-> 0,
               lastErr |-> "nil",
               err |-> "none",
               ctxDone |-> FALSE,
               builds |-> 0,
               signs |-> 0,
               transports |-> 0,
               waits |-> 0]

\* verifyExistence(ctx, addr, email) begins
ProbeEntry ==
    probe = [pc |-> "dial",
             session |-> FALSE,
             next |-> 1,
             log |-> <<>>,
             closes |-> <<>>,
             err |-> "none"]

\* the goroutines that use one SES Sender
Callers == 1 .. MaxCallers

\* an SES Sender after NewSender: no client, the RWMutex free; no caller is
\* in getClient
GetClientEntry ==
    sesClient = [client |-> 0,
                 readers |-> {},
                 writer |-> 0,
                 pc |-> [g \in Callers |-> "idle"],
                 got |-> [g \in Callers |-> 0],
                 calls |-> [g \in Callers |-> 0],
                 built |-> 0,
                 failed |-> 0]

\* every component but the named one, right after construction
AllAtRestExcept(skip) ==
    /\ IF skip = "retry" THEN TRUE ELSE RetryEntry(IdleRetryConfig, FALSE)
    /\ IF skip = "background" THEN TRUE ELSE NewBackgroundSender(1)
    /\ IF skip = "pool" THEN TRUE ELSE NewPool(IdlePoolConfig)
    /\ IF skip = "middleware" THEN TRUE ELSE Wrapped("Send", <<>>)
    /\ IF skip = "api" THEN TRUE ELSE ApiEntry("Send", "nil", FALSE)
    /\ IF skip = "health" THEN TRUE ELSE DomainHealthEntry("", 0, FALSE)
    /\ IF skip = "session" THEN TRUE ELSE SessionEntry(IdleSessionConfig)
    /\ IF skip = "fetch" THEN TRUE ELSE FetchEntry(1, <<>>)
    /\ IF skip = "imapIdle" THEN TRUE ELSE ImapIdleEntry
    /\ IF skip = "pop" THEN TRUE ELSE PopEntry(0, 0)
    /\ IF skip = "validation" THEN TRUE ELSE ValidationEntry(TRUE, FALSE)
    /\ IF skip = "sending" THEN TRUE ELSE SendingEntry("smtp", FALSE, FALSE, 0)
    /\ IF skip = "probe" THEN TRUE ELSE ProbeEntry
    /\ IF skip = "getClient" THEN TRUE ELSE GetClientEntry

----------------------------------------------------------------------------
(* Retry, provider.go *)

\* RetryConfig values; Multiplier is the rational num/den
RetryConfigs ==
    [MaxRetries : -1 .. MaxRetriesBound,
     InitialInterval : {1, 3},
     MaxInterval : {2, MaxIntervalBound},
     Multiplier : {<<2, 1>>, <<3, 2>>}]

\* time.Duration(float64(interval) * config.Multiplier): truncation
NextIntervalRaw(iv, m) == (iv * m[1]) \div m[2]

\* lines 89-92: multiply, then cap at MaxInterval
NextInterval(iv, cfg) ==
    IF NextIntervalRaw(iv, cfg.Multiplier) > cfg.MaxInterval
    THEN cfg.MaxInterval
    ELSE NextIntervalRaw(iv, cfg.Multiplier)

\* the loop condition  i <= config.MaxRetries
LoopContinuesOff(n, maxRetries) == n < maxRetries
LoopContinues(n, maxRetries) == n <= maxRetries

\* line 79: i == config.MaxRetries
IsLastAttempt(n, maxRetries) == n = maxRetries

\* what the select of lines 83-87 returns when it takes the ctx.Done() case
WaitCancelledResultLast(prev) == prev
WaitCancelledResult(prev) == CtxErr

\* may the select of lines 67-71 fall to its default case?
AttemptMayStartAlways(done) == TRUE
AttemptMayStart(done) == ~done

InitRetry ==
    /\ \E cfg \in RetryConfigs, cancelled \in BOOLEAN :
          RetryEntry(cfg, cancelled)
    /\ AllAtRestExcept("retry")

\* for-loop head whose condition is false: return lastErr (line 95)
RetryLoopExit ==
    /\ retryPc = "check"
    /\ ~LoopContinues(retry_i, config.MaxRetries)
    /\ retryPc' = "done"
    /\ retryResult' = lastErr
    /\ UNCHANGED <<config, retry_i, interval, lastErr, ctxDone, calls,
                   outcomes, waits, ctxAtReturn>>
    /\ UNCHANGED nonRetryVars

\* lines 67-69: the context is already cancelled before the attempt
RetryCheckCancelled ==
    /\ retryPc = "check"
    /\ LoopContinues(retry_i, config.MaxRetries)
    /\ ~AttemptMayStart(ctxDone)
    /\ retryPc' = "done"
    /\ retryResult' = CtxErr
    /\ UNCHANGED <<config, retry_i, interval, lastErr, ctxDone, calls,
                   outcomes, waits, ctxAtReturn>>
    /\ UNCHANGED nonRetryVars

\* lines 70-73: default case, fn() is invoked
RetryInvoke ==
    /\ retryPc = "check"
    /\ LoopContinues(retry_i, config.MaxRetries)
    /\ AttemptMayStart(ctxDone)
    /\ retryPc' = "call"
    /\ calls' = calls + 1
    /\ UNCHANGED <<config, retry_i, interval, lastErr, retryResult, ctxDone,
                   outcomes, waits, ctxAtReturn>>
    /\ UNCHANGED nonRetryVars

\* lines 73-74: fn() returned nil
RetryFnOk ==
    /\ retryPc = "call"
    /\ outcomes' = Append(outcomes, "ok")
    /\ retryPc' = "done"
    /\ retryResult' = NilErr
    /\ UNCHANGED <<config, retry_i, interval, lastErr, ctxDone, calls,
                   waits, ctxAtReturn>>
    /\ UNCHANGED nonRetryVars

\* lines 75-81: fn() returned an error
RetryFnFail ==
    /\ retryPc = "call"
    /\ outcomes' = Append(outcomes, "fail")
    /\ ctxAtReturn' = Append(ctxAtReturn, ctxDone)
    /\ lastErr' = OpErr(calls)
    /\ IF IsLastAttempt(retry_i, config.MaxRetries)
       THEN /\ retryPc' = "done"          \* break; return lastErr
            /\ retryResult' = lastErr'
       ELSE /\ retryPc' = "wait"
            /\ UNCHANGED retryResult
    /\ UNCHANGED <<config, retry_i, interval, ctxDone, calls, waits>>
    /\ UNCHANGED nonRetryVars

\* lines 83-85: the select takes the ctx.Done() case
RetryWaitCancelled ==
    /\ retryPc = "wait"
    /\ ctxDone
    /\ retryPc' = "done"
    /\ retryResult' = WaitCancelledResult(lastErr)
    /\ UNCHANGED <<config, retry_i, interval, lastErr, ctxDone, calls,
                   outcomes, waits, ctxAtReturn>>
    /\ UNCHANGED nonRetryVars

\* lines 86-92 and i++: the select takes the time.After case (when both
\* cases are ready the select picks either one)
RetryWaitElapsed ==
    /\ retryPc = "wait"
    /\ waits' = Append(waits, interval)
    /\ interval' = NextInterval(interval, config)
    /\ retry_i' = retry_i + 1
    /\ retryPc' = "check"
    /\ UNCHANGED <<config, lastErr, retryResult, ctxDone, calls, outcomes,
                   ctxAtReturn>>
    /\ UNCHANGED nonRetryVars

\* the caller (or a deadline) cancels the context
RetryCancel ==
    /\ retryPc # "done"
    /\ ~ctxDone
    /\ ctxDone' = TRUE
    /\ UNCHANGED <<config, retryPc, retry_i, interval, lastErr, retryResult,
                   calls, outcomes, waits, ctxAtReturn>>
    /\ UNCHANGED nonRetryVars

NextRetry ==
    \/ RetryLoopExit
    \/ RetryCheckCancelled
    \/ RetryInvoke
    \/ RetryFnOk
    \/ RetryFnFail
    \/ RetryWaitCancelled
    \/ RetryWaitElapsed
    \/ RetryCancel

SpecRetry == InitRetry /\ [][NextRetry]_vars

----------------------------------------------------------------------------
(* Properties of Retry *)

AllFail(seq, upto) == \A j \in 1 .. upto : seq[j] = "fail"

\* C1: with MaxRetries = n >= 0 and a context that is never cancelled, the
\* operation is invoked one call at a time until its first success or until
\* it has been invoked n+1 times: if the k-th invocation (k <= n+1) is the
\* first to succeed there are exactly k invocations and Retry returns nil;
\* if all n+1 fail there are exactly n+1 invocations and Retry returns the
\* error of the last one.
C1_RetryInvocationCount ==
    (config.MaxRetries >= 0 /\ ~ctxDone) =>
        /\ calls <= config.MaxRetries + 1
        /\ Len(outcomes) = IF retryPc = "call" THEN calls - 1 ELSE calls
        /\ AllFail(outcomes, Len(outcomes) - 1)
        /\ retryPc # "done" => AllFail(outcomes, Len(outcomes))
        /\ retryPc = "done" =>
              /\ calls >= 1
              /\ \/ /\ outcomes[calls] = "ok"
                    /\ retryResult = NilErr
                 \/ /\ outcomes[calls] = "fail"
                    /\ calls = config.MaxRetries + 1
                    /\ retryResult = OpErr(calls)

\* the third of three allowed invocations succeeds, or all three fail
C1_Witness ==
    /\ retryPc = "done"
    /\ ~ctxDone
    /\ config.MaxRetries = 2
    /\ calls = 3
    /\ retryResult = OpErr(3)

\* C2: when the context is already cancelled while an attempt is about to
\* start, or while Retry waits between two attempts, no further invocation
\* is made and the value Retry returns is the cancellation error.
C2_CancelStopsRetry ==
    [][(/\ ctxDone
        /\ retryPc \in {"check", "wait"}
        /\ retry_i <= config.MaxRetries)
       => /\ calls' = calls
          /\ retryPc' \in {"check", "done"}
          /\ retryPc' = "done" => retryResult' = CtxErr]_vars

\* Retry returned the cancellation error out of its first wait
C2_Witness ==
    /\ retryPc = "done"
    /\ retryResult = CtxErr
    /\ outcomes = <<"fail">>
    /\ waits = <<>>
    /\ ctxAtReturn = <<FALSE>>

LastFailedUnderCancel ==
    /\ retryPc = "done"
    /\ outcomes # <<>>
    /\ outcomes[Len(outcomes)] = "fail"
    /\ ctxAtReturn[Len(ctxAtReturn)]

RECURSIVE Power(_, _)
Power(b, e) == IF e = 0 THEN 1 ELSE b * Power(b, e - 1)

IsCappedPower(w, k, cfg) ==
    LET num == cfg.InitialInterval * Power(cfg.Multiplier[1], k - 1)
        den == Power(cfg.Multiplier[2], k - 1)
    IN  IF num >= cfg.MaxInterval * den
        THEN w = cfg.MaxInterval
        ELSE w * den = num

\* C23: the wait between the k-th failed attempt and attempt k+1 equals
\* min(InitialInterval * Multiplier^(k-1), MaxInterval) for every k >= 1, so
\* that no wait is longer than MaxInterval, for every configuration.
C23_WaitsFollowCappedBackoff ==
    \A k \in 1 .. Len(waits) :
        /\ waits[k] <= config.MaxInterval
        /\ IsCappedPower(waits[k], k, config)

\* C25: for every RetryConfig, MaxRetries < 0 included, Retry returns nil
\* only if the operation was invoked at least once and its last invocation
\* returned nil.
C25_NilOnlyAfterSuccess ==
    (retryPc = "done" /\ retryResult = NilErr) =>
        /\ calls >= 1
        /\ outcomes # <<>>
        /\ outcomes[Len(outcomes)] = "ok"

----------------------------------------------------------------------------
(* BackgroundSender, background.go *)

\* a send on a channel with this buffer can go into the buffer
BufferHasRoomOff(buf, cap) == Len(buf) <= cap
BufferHasRoom(buf, cap) == Len(buf) < cap

\* the workers at the receive of  for email := range s.queue; with an empty
\* queue such a worker is blocked in the receive or about to block
ReceivingWorkers == {w \in Workers : workerPc[w] = "recv"}

\* the workers that have not returned
LiveWorkers ==
    {w \in Workers : workerPc[w] \in {"recv", "sending"}}

StopBegun == \E c \in Stoppers : stopPc[c] # "idle"

\* for email := range s.queue  ends: the channel is closed and drained
RangeEndsOnClose(buf, chClosed) == chClosed
RangeEnds(buf, chClosed) == chClosed /\ buf = <<>>

\* wg.Wait() returns
WaitReturnsEarly(counter) == counter <= 1
WaitReturns(counter) == counter = 0

\* the context a worker passes to s.sender.Send: s.ctx, not a fresh one
\* (done: s.ctx is cancelled)
SendCtxFresh(done) == FALSE
SendCtx(done) == done

\* Start(numWorkers): wg.Add(1); go s.worker(), numWorkers times.  Start is
\* called before Stop (wg.Add must not race with wg.Wait).
Start(numWorkers) ==
    /\ ~StopBegun
    /\ \E ws \in SUBSET {w \in Workers : workerPc[w] = "none"} :
          /\ Cardinality(ws) = numWorkers
          /\ \A w \in ws : \A v \in Workers : (workerPc[v] = "none" /\ v < w) => v \in ws
          /\ workerPc' = [w \in Workers |-> IF w \in ws THEN "recv" ELSE workerPc[w]]
    /\ wg' = wg + numWorkers
    /\ UNCHANGED <<bufferSize, queue, queueClosed, errChan, errClosed,
                   bgCtxDone, workerEmail, stopPc, nextEmail, sendResult,
                   sentAfterStop, handed, ctxAtHandover, lastReport, fault>>
    /\ UNCHANGED nonBgVars

BgStart == \E n \in 1 .. MaxWorkers : Start(n)

\* Send(email): select { case s.queue <- email: return true; default: return false }
Send(email) ==
    /\ nextEmail = email
    /\ nextEmail' = nextEmail + 1
    /\ sentAfterStop' = [sentAfterStop EXCEPT ![email] = StopBegun]
    /\ IF queueClosed
       THEN \* send on closed channel
            /\ sendResult' = [sendResult EXCEPT ![email] = "panic"]
            /\ fault' = fault \cup {"Send: send on closed channel"}
            /\ UNCHANGED <<queue, workerPc, workerEmail, handed, ctxAtHandover>>
       ELSE IF BufferHasRoom(queue, bufferSize)
       THEN /\ sendResult' = [sendResult EXCEPT ![email] = "true"]
            /\ queue' = Append(queue, email)
            /\ UNCHANGED <<fault, workerPc, workerEmail, handed, ctxAtHandover>>
       ELSE \/ \* unbuffered queue: the email goes straight to a worker that
               \* is blocked in the receive
               /\ queue = <<>>
               /\ sendResult' = [sendResult EXCEPT ![email] = "true"]
               /\ \E w \in ReceivingWorkers :
                     /\ workerPc' = [workerPc EXCEPT ![w] = "sending"]
                     /\ workerEmail' = [workerEmail EXCEPT ![w] = email]
               /\ handed' = [handed EXCEPT ![email] = @ + 1]
               /\ ctxAtHandover' = [ctxAtHandover EXCEPT
                                        ![email] = SendCtx(bgCtxDone)]
               /\ UNCHANGED <<fault, queue>>
            \/ \* default: the queue is full and no worker is blocked receiving
               /\ sendResult' = [sendResult EXCEPT ![email] = "false"]
               /\ UNCHANGED <<fault, queue, workerPc, workerEmail, handed,
                              ctxAtHandover>>
    /\ UNCHANGED <<bufferSize, queueClosed, errChan, errClosed, bgCtxDone, wg,
                   stopPc, lastReport>>
    /\ UNCHANGED nonBgVars

BgSend == \E e \in Emails : Send(e)

\* Stop, line 1: s.cancel()
StopCancel(c) ==
    /\ stopPc[c] = "idle"
    /\ \A b \in Stoppers : b < c => stopPc[b] # "idle"
    /\ stopPc' = [stopPc EXCEPT ![c] = "closeQueue"]
    /\ bgCtxDone' = TRUE
    /\ UNCHANGED <<bufferSize, queue, queueClosed, errChan, errClosed, wg,
                   workerPc, workerEmail, nextEmail, sendResult,
                   sentAfterStop, handed, ctxAtHandover, lastReport, fault>>
    /\ UNCHANGED nonBgVars

\* Stop, line 2: close(s.queue)
StopCloseQueue(c) ==
    /\ stopPc[c] = "closeQueue"
    /\ IF queueClosed
       THEN /\ stopPc' = [stopPc EXCEPT ![c] = "panicked"]
            /\ fault' = fault \cup {"Stop: close of closed channel"}
            /\ UNCHANGED queueClosed
       ELSE /\ stopPc' = [stopPc EXCEPT ![c] = "wait"]
            /\ queueClosed' = TRUE
            /\ UNCHANGED fault
    /\ UNCHANGED <<bufferSize, queue, errChan, errClosed, bgCtxDone, wg,
                   workerPc, workerEmail, nextEmail, sendResult, sentAfterStop, handed,
                   ctxAtHandover, lastReport>>
    /\ UNCHANGED nonBgVars

\* Stop, lines 3-4: s.wg.Wait() returns, close(s.errChan)
StopWaitClose(c) ==
    /\ stopPc[c] = "wait"
    /\ WaitReturns(wg)
    /\ IF errClosed
       THEN /\ stopPc' = [stopPc EXCEPT ![c] = "panicked"]
            /\ fault' = fault \cup {"Stop: close of closed channel"}
            /\ UNCHANGED errClosed
       ELSE /\ stopPc' = [stopPc EXCEPT ![c] = "returned"]
            /\ errClosed' = TRUE
            /\ UNCHANGED fault
    /\ UNCHANGED <<bufferSize, queue, queueClosed, errChan, bgCtxDone, wg,
                   workerPc, workerEmail, nextEmail, sendResult,
                   sentAfterStop, handed, ctxAtHandover, lastReport>>
    /\ UNCHANGED nonBgVars

\* worker: for email := range s.queue receives a buffered email and calls
\* s.sender.Send(s.ctx, email)
WorkerReceive(w) ==
    /\ workerPc[w] = "recv"
    /\ queue # <<>>
    /\ workerPc' = [workerPc EXCEPT ![w] = "sending"]
    /\ workerEmail' = [workerEmail EXCEPT ![w] = Head(queue)]
    /\ queue' = Tail(queue)
    /\ handed' = [handed EXCEPT ![Head(queue)] = @ + 1]
    /\ ctxAtHandover' = [ctxAtHandover EXCEPT
                             ![Head(queue)] = SendCtx(bgCtxDone)]
    /\ UNCHANGED <<bufferSize, queueClosed, errChan, errClosed, bgCtxDone, wg,
                   stopPc, nextEmail, sendResult, sentAfterStop, lastReport,
                   fault>>
    /\ UNCHANGED nonBgVars

\* worker: the queue is closed and drained, the loop ends; defer s.wg.Done()
WorkerExit(w) ==
    /\ workerPc[w] = "recv"
    /\ RangeEnds(queue, queueClosed)
    /\ workerPc' = [workerPc EXCEPT ![w] = "exited"]
    /\ wg' = wg - 1
    /\ UNCHANGED <<bufferSize, queue, queueClosed, errChan, errClosed,
                   bgCtxDone, workerEmail, stopPc, nextEmail, sendResult,
                   sentAfterStop, handed, ctxAtHandover, lastReport, fault>>
    /\ UNCHANGED nonBgVars

\* worker: s.sender.Send returned nil
WorkerSendOk(w) ==
    /\ workerPc[w] = "sending"
    /\ workerPc' = [workerPc EXCEPT ![w] = "recv"]
    /\ workerEmail' = [workerEmail EXCEPT ![w] = 0]
    /\ UNCHANGED <<bufferSize, queue, queueClosed, errChan, errClosed,
                   bgCtxDone, wg, stopPc, nextEmail, sendResult, sentAfterStop,
                   handed, ctxAtHandover, lastReport, fault>>
    /\ UNCHANGED nonBgVars

\* worker: s.sender.Send returned an error;
\* select { case s.errChan <- BackgroundSendError{...}: default: }
WorkerSendFail(w) ==
    /\ workerPc[w] = "sending"
    /\ workerEmail' = [workerEmail EXCEPT ![w] = 0]
    /\ IF errClosed
       THEN \* send on closed channel
            /\ workerPc' = [workerPc EXCEPT ![w] = "panicked"]
            /\ fault' = fault \cup {"worker: send on closed channel"}
            /\ UNCHANGED <<errChan, lastReport>>
       ELSE IF BufferHasRoom(errChan, bufferSize)
       THEN /\ errChan' = Append(errChan, workerEmail[w])
            /\ lastReport' = <<workerEmail[w], "queued">>
            /\ workerPc' = [workerPc EXCEPT ![w] = "recv"]
            /\ UNCHANGED fault
       ELSE \/ \* unbuffered error queue: straight to a consumer of Errors()
               \* that is blocked in its receive
               /\ errChan = <<>>
               /\ lastReport' = <<workerEmail[w], "handed">>
               /\ workerPc' = [workerPc EXCEPT ![w] = "recv"]
               /\ UNCHANGED <<fault, errChan>>
            \/ \* default: the error is dropped
               /\ lastReport' = <<workerEmail[w], "dropped">>
               /\ workerPc' = [workerPc EXCEPT ![w] = "recv"]
               /\ UNCHANGED <<fault, errChan>>
    /\ UNCHANGED <<bufferSize, queue, queueClosed, errClosed, bgCtxDone, wg,
                   stopPc, nextEmail, sendResult, sentAfterStop, handed,
                   ctxAtHandover>>
    /\ UNCHANGED nonBgVars

\* a consumer of Errors() receives a buffered error
ErrorsReceive ==
    /\ errChan # <<>>
    /\ errChan' = Tail(errChan)
    /\ UNCHANGED <<bufferSize, queue, queueClosed, errClosed, bgCtxDone, wg,
                   workerPc, workerEmail, stopPc, nextEmail, sendResult,
                   sentAfterStop, handed, ctxAtHandover, lastReport, fault>>
    /\ UNCHANGED nonBgVars

InitBackground ==
    /\ \E size \in 0 .. MaxBuffer : NewBackgroundSender(size)
    /\ AllAtRestExcept("background")

\* the steps of a worker, the return of the wrapped Sender included
WorkerStep(w) ==
    \/ WorkerReceive(w)
    \/ WorkerExit(w)
    \/ WorkerSendOk(w)
    \/ WorkerSendFail(w)

\* the steps of a call of Stop after its first line
StopStep(c) ==
    \/ StopCloseQueue(c)
    \/ StopWaitClose(c)

NextBackground ==
    \/ BgStart
    \/ BgSend
    \/ \E c \in Stoppers : StopCancel(c)
    \/ \E c \in Stoppers : StopCloseQueue(c)
    \/ \E c \in Stoppers : StopWaitClose(c)
    \/ \E w \in Workers : WorkerReceive(w)
    \/ \E w \in Workers : WorkerExit(w)
    \/ \E w \in Workers : WorkerSendOk(w)
    \/ \E w \in Workers : WorkerSendFail(w)
    \/ ErrorsReceive

SpecBackground == InitBackground /\ [][NextBackground]_vars

\* every runnable goroutine is scheduled, and the wrapped Sender returns
FairBackground ==
    /\ SpecBackground
    /\ \A w \in Workers : WF_vars(WorkerStep(w))
    /\ \A c \in Stoppers : WF_vars(StopStep(c))

----------------------------------------------------------------------------
(* Properties of BackgroundSender *)

WorkersStarted == \E w \in Workers : workerPc[w] # "none"

\* the step is the call Send(e)
SendCalled(e) == sendResult[e] = "none" /\ sendResult'[e] # "none"

\* Send(e) returned true and put e at the end of the queue
Enqueued(e) == sendResult'[e] = "true" /\ queue' = Append(queue, e)

\* Send(e) returned false and left the queue alone
Rejected(e) == sendResult'[e] = "false" /\ queue' = queue

\* C4 as stated: Send never blocks the caller; called before Stop it returns
\* true and adds the email to the queue exactly once when the queue holds
\* fewer than bufferSize emails, and otherwise returns false leaving the
\* queue unchanged; the queue never holds more than bufferSize emails.
C4_SendNonBlocking ==
    /\ [](Len(queue) <= bufferSize)
    /\ [](nextEmail <= MaxEmails => ENABLED BgSend)
    /\ [][\A e \in Emails :
            (SendCalled(e) /\ ~StopBegun) =>
                IF Len(queue) < bufferSize THEN Enqueued(e) ELSE Rejected(e)]_vars

\* C4 as amended: the same for every bufferSize >= 1 (with bufferSize = 0
\* the queue is unbuffered and Send returns true when it hands the email to
\* a worker that is blocked receiving).
C4_SendNonBlockingBuffered ==
    /\ [](Len(queue) <= bufferSize)
    /\ [](nextEmail <= MaxEmails => ENABLED BgSend)
    /\ [][\A e \in Emails :
            (SendCalled(e) /\ ~StopBegun /\ bufferSize >= 1) =>
                IF Len(queue) < bufferSize THEN Enqueued(e) ELSE Rejected(e)]_vars

\* before Stop, one Send was accepted and one was refused by a full queue
C4_Witness ==
    /\ ~StopBegun
    /\ bufferSize = 1
    /\ sendResult[1] = "true"
    /\ sendResult[2] = "false"
    /\ queue = <<1>>

\* every email Send has accepted so far has been passed to the wrapped Sender
AcceptedAllHanded == \A e \in Emails : sendResult[e] = "true" => handed[e] = 1

\* C5: with a worker started and a wrapped Sender that returns, every email
\* for which Send returned true is eventually passed to the wrapped Sender
\* exactly once, those queued when Stop is called before Stop returns; an
\* email for which Send did not return true is never passed on.
\* (An email is never un-handed and a result never changes, so "again and
\* again every accepted email has been handed over" gives "eventually" for
\* each of them.)
C5_AcceptedEmailsDelivered ==
    /\ [](\A e \in Emails : handed[e] <= 1)
    /\ [](\A e \in Emails : sendResult[e] # "true" => handed[e] = 0)
    /\ [][\A e \in Emails :
            /\ handed'[e] >= handed[e]
            /\ sendResult[e] # "none" => sendResult'[e] = sendResult[e]]_vars
    /\ [](\A c \in Stoppers :
            (stopPc[c] = "returned" /\ WorkersStarted) => AcceptedAllHanded)
    /\ []<>(WorkersStarted => AcceptedAllHanded)

\* Stop returned after an email queued before Stop was handed over under
\* the cancelled context, and another email had been refused
C5_Witness ==
    /\ \E c \in Stoppers : stopPc[c] = "returned"
    /\ \E e \in Emails :
          /\ sendResult[e] = "true"
          /\ ~sentAfterStop[e]
          /\ ctxAtHandover[e]
          /\ handed[e] = 1
    /\ \E e \in Emails : sendResult[e] = "false" /\ handed[e] = 0

\* C29: every invocation of the wrapped Sender's Send that a worker starts
\* once Stop has been called receives the already-cancelled internal
\* context, and every invocation a worker starts before Stop is called
\* receives a context that is not cancelled.
C29_StopCancelsLaterSends ==
    [][\A e \in Emails :
          handed'[e] # handed[e] => (ctxAtHandover'[e] <=> StopBegun)]_vars

\* one email was passed on before Stop and one after Stop had been called
C29_Witness ==
    /\ StopBegun
    /\ \E e \in Emails : handed[e] = 1 /\ ~ctxAtHandover[e]
    /\ \E e \in Emails : handed[e] = 1 /\ ctxAtHandover[e]

\* C6: after Stop has been called every call of Send returns false without
\* enqueuing, and neither a later Send nor a repeated Stop raises a fault.
C6_StoppedSenderRejects ==
    /\ fault = {}
    /\ \A e \in Emails : sentAfterStop[e] => sendResult[e] \in {"none", "false"}

\* the step reports the error of email e
ErrorReported(e) == lastReport' # lastReport /\ lastReport'[1] = e

ErrorQueued(e) == lastReport'[2] = "queued" /\ errChan' = Append(errChan, e)

ErrorDropped(e) == lastReport'[2] = "dropped" /\ errChan' = errChan

ErrorHandedOver(e) == lastReport'[2] = "handed" /\ errChan' = errChan

\* the parts of C7 that do not depend on bufferSize: no worker blocks while
\* reporting, the error queue is closed only after every worker has exited,
\* no worker writes to a closed error queue, and the Stop call that waits
\* for the workers returns
ErrorReportingSafe ==
    /\ [](\A w \in Workers : workerPc[w] = "sending" => ENABLED WorkerSendFail(w))
    /\ [](errClosed => LiveWorkers = {})
    /\ [](\A w \in Workers : workerPc[w] # "panicked")
    /\ [](Len(errChan) <= bufferSize)
    /\ [][\A c \in Stoppers :
            stopPc[c] = "wait" => stopPc'[c] \in {"wait", "returned"}]_vars
    /\ []<>(\A c \in Stoppers : stopPc[c] # "wait")

\* C7 as stated: an error is queued only when the error queue holds fewer
\* than bufferSize entries, otherwise it is dropped, so no worker blocks and
\* Stop returns; the error queue is closed only after every worker exited.
C7_ErrorsNeverBlock ==
    /\ ErrorReportingSafe
    /\ [][\A e \in Emails :
            ErrorReported(e) =>
                IF Len(errChan) < bufferSize
                THEN ErrorQueued(e)
                ELSE ErrorDropped(e)]_vars

\* C7 as amended: the same for bufferSize >= 1; with bufferSize = 0 the
\* error is handed to a reader that is already blocked on Errors() and is
\* dropped when there is none.
C7_ErrorsNeverBlockBuffered ==
    /\ ErrorReportingSafe
    /\ [][\A e \in Emails :
            ErrorReported(e) =>
                IF Len(errChan) < bufferSize
                THEN ErrorQueued(e)
                ELSE IF bufferSize = 0
                THEN ErrorHandedOver(e) \/ ErrorDropped(e)
                ELSE ErrorDropped(e)]_vars

\* Stop returned although an error was dropped on a full error queue that
\* nobody read
C7_Witness ==
    /\ \E c \in Stoppers : stopPc[c] = "returned"
    /\ bufferSize = 1
    /\ Len(errChan) = 1
    /\ lastReport[2] = "dropped"

----------------------------------------------------------------------------
(* Pool, smtp/pool.go *)

\* the PoolConfig values given to NewPool
PoolConfigs == [MaxIdle : {0, 1}, MaxOpen : {0, 2}, IdleTimeout : {0, 1}]

\* p.config.IdleTimeout > 0 && time.Since(pc.lastUsed) > p.config.IdleTimeout
ExpiredAtLimit(pc, t, cfg) ==
    cfg.IdleTimeout > 0 /\ t - pc.lastUsed >= cfg.IdleTimeout
Expired(pc, t, cfg) ==
    cfg.IdleTimeout > 0 /\ t - pc.lastUsed > cfg.IdleTimeout

\* the loop  for len(p.idle) > 0  of Get: takes the records from the end of
\* the list; an expired one is quit, one that fails NOOP is closed, the first
\* other one is returned.  quit and close are the sets of discarded clients.
RECURSIVE ScanIdle(_, _, _, _, _, _)
ScanIdle(lst, t, cfg, live, quit, close) ==
    IF lst = <<>>
    THEN [found |-> FALSE, client |-> 0, rest |-> <<>>, quit |-> quit,
          close |-> close]
    ELSE LET pc == lst[Len(lst)]
             rest == SubSeq(lst, 1, Len(lst) - 1)
         IN  IF Expired(pc, t, cfg)
             THEN ScanIdle(rest, t, cfg, live, quit \cup {pc.client}, close)
             ELSE IF ~live[pc.client]
             THEN ScanIdle(rest, t, cfg, live, quit, close \cup {pc.client})
             ELSE [found |-> TRUE, client |-> pc.client, rest |-> rest,
                   quit |-> quit, close |-> close]

\* p.config.MaxOpen > 0 && p.open >= p.config.MaxOpen
PoolFullOff(cfg, n) == cfg.MaxOpen > 0 /\ n > cfg.MaxOpen
PoolFull(cfg, n) == cfg.MaxOpen > 0 /\ n >= cfg.MaxOpen

\* p.closed || len(p.idle) >= p.config.MaxIdle
PutDiscardsIgnoringClosed(isClosed, lst, cfg) == Len(lst) >= cfg.MaxIdle
PutDiscards(isClosed, lst, cfg) == isClosed \/ Len(lst) >= cfg.MaxIdle

Outstanding == Cardinality(borrowed) + Cardinality(returning) + dialing

Bump(f, set) == [c \in Conns |-> IF c \in set THEN f[c] + 1 ELSE f[c]]

\* Get, the part under p.mu (lines 53-89)
PoolGet ==
    /\ Outstanding < MaxConns
    /\ IF closed
       THEN /\ lastGet' = [seq |-> 1 - lastGet.seq, outcome |-> "ErrPoolClosed"]
            /\ UNCHANGED <<idle, open, borrowed, dialing, quits, closes>>
       ELSE LET r == ScanIdle(idle, now, poolConfig, alive, {}, {})
                n == open - Cardinality(r.quit) - Cardinality(r.close)
            IN  /\ idle' = r.rest
                /\ quits' = Bump(quits, r.quit)
                /\ closes' = Bump(closes, r.close)
                /\ IF r.found
                   THEN /\ open' = n
                        /\ borrowed' = borrowed \cup {r.client}
                        /\ lastGet' = [seq |-> 1 - lastGet.seq,
                                       outcome |-> "reused"]
                        /\ UNCHANGED dialing
                   ELSE IF PoolFull(poolConfig, n)
                   THEN /\ open' = n
                        /\ lastGet' = [seq |-> 1 - lastGet.seq,
                                       outcome |-> "ErrPoolFull"]
                        /\ UNCHANGED <<borrowed, dialing>>
                   ELSE /\ open' = n + 1
                        /\ dialing' = dialing + 1
                        /\ lastGet' = [seq |-> 1 - lastGet.seq,
                                       outcome |-> "dial"]
                        /\ UNCHANGED borrowed
    /\ UNCHANGED <<givenConfig, poolConfig, closed, now, nextConn, returning, alive,
                   closeSeq>>
    /\ UNCHANGED nonPoolVars

\* Get, lines 91 and 99: p.dialer returned a client
PoolDialOk ==
    /\ dialing > 0
    /\ nextConn <= MaxConns
    /\ dialing' = dialing - 1
    /\ borrowed' = borrowed \cup {nextConn}
    /\ nextConn' = nextConn + 1
    /\ UNCHANGED <<givenConfig, poolConfig, idle, open, closed, now, returning, alive,
                   quits, closes, closeSeq, lastGet>>
    /\ UNCHANGED nonPoolVars

\* Get, lines 91-97: p.dialer returned an error
PoolDialFail ==
    /\ dialing > 0
    /\ dialing' = dialing - 1
    /\ open' = open - 1
    /\ UNCHANGED <<givenConfig, poolConfig, idle, closed, now, nextConn, borrowed,
                   returning, alive, quits, closes, closeSeq, lastGet>>
    /\ UNCHANGED nonPoolVars

\* Put(client, err) with err != nil (lines 109-115)
PoolPutErr(c) ==
    /\ c \in borrowed
    /\ borrowed' = borrowed \ {c}
    /\ closes' = Bump(closes, {c})
    /\ open' = open - 1
    /\ UNCHANGED <<givenConfig, poolConfig, idle, closed, now, nextConn, dialing,
                   returning, alive, quits, closeSeq, lastGet>>
    /\ UNCHANGED nonPoolVars

\* Put(client, nil), client.Reset() fails (lines 118-124)
PoolPutResetFail(c) ==
    /\ c \in borrowed
    /\ borrowed' = borrowed \ {c}
    /\ closes' = Bump(closes, {c})
    /\ open' = open - 1
    /\ UNCHANGED <<givenConfig, poolConfig, idle, closed, now, nextConn, dialing,
                   returning, alive, quits, closeSeq, lastGet>>
    /\ UNCHANGED nonPoolVars

\* Put(client, nil), client.Reset() succeeds (line 118)
PoolPutResetOk(c) ==
    /\ c \in borrowed
    /\ borrowed' = borrowed \ {c}
    /\ returning' = returning \cup {c}
    /\ UNCHANGED <<givenConfig, poolConfig, idle, open, closed, now, nextConn, dialing,
                   alive, quits, closes, closeSeq, lastGet>>
    /\ UNCHANGED nonPoolVars

\* Put(client, nil), the part under p.mu (lines 126-138)
PoolPutLocked(c) ==
    /\ c \in returning
    /\ returning' = returning \ {c}
    /\ IF PutDiscards(closed, idle, poolConfig)
       THEN /\ quits' = Bump(quits, {c})
            /\ open' = open - 1
            /\ UNCHANGED idle
       ELSE /\ idle' = Append(idle, [client |-> c, lastUsed |-> now])
            /\ UNCHANGED <<quits, open>>
    /\ UNCHANGED <<givenConfig, poolConfig, closed, now, nextConn, borrowed, dialing,
                   alive, closes, closeSeq, lastGet>>
    /\ UNCHANGED nonPoolVars

IdleClients(lst) == {lst[k].client : k \in 1 .. Len(lst)}

\* Close (lines 142-158)
PoolClose ==
    /\ closeSeq' = 1 - closeSeq
    /\ IF closed
       THEN UNCHANGED <<closed, idle, open, quits>>
       ELSE /\ closed' = TRUE
            /\ idle' = <<>>
            /\ open' = 0
            /\ quits' = Bump(quits, IdleClients(idle))
    /\ UNCHANGED <<givenConfig, poolConfig, now, nextConn, borrowed, dialing, returning,
                   alive, closes, lastGet>>
    /\ UNCHANGED nonPoolVars

\* time passes; the clock is read against a lastUsed only when
\* p.config.IdleTimeout > 0 (line 65)
PoolTick ==
    /\ now < MaxTime
    /\ poolConfig.IdleTimeout > 0
    /\ now' = now + 1
    /\ UNCHANGED <<givenConfig, poolConfig, idle, open, closed, nextConn, borrowed, dialing,
                   returning, alive, quits, closes, closeSeq, lastGet>>
    /\ UNCHANGED nonPoolVars

\* the server drops an idle connection: it no longer answers NOOP
PoolConnDies(c) ==
    /\ c \in IdleClients(idle)
    /\ alive[c]
    /\ alive' = [alive EXCEPT ![c] = FALSE]
    /\ UNCHANGED <<givenConfig, poolConfig, idle, open, closed, now, nextConn, borrowed,
                   dialing, returning, quits, closes, closeSeq, lastGet>>
    /\ UNCHANGED nonPoolVars

InitPool ==
    /\ \E cfg \in PoolConfigs : NewPool(cfg)
    /\ AllAtRestExcept("pool")

NextPool ==
    \/ PoolGet
    \/ PoolDialOk
    \/ PoolDialFail
    \/ \E c \in Conns : PoolPutErr(c)
    \/ \E c \in Conns : PoolPutResetFail(c)
    \/ \E c \in Conns : PoolPutResetOk(c)
    \/ \E c \in Conns : PoolPutLocked(c)
    \/ PoolClose
    \/ PoolTick
    \/ \E c \in Conns : PoolConnDies(c)

SpecPool == InitPool /\ [][NextPool]_vars

----------------------------------------------------------------------------
(* Properties of Pool *)

\* a step of Get under the lock
GetStep == lastGet'.seq # lastGet.seq

\* the idle record has been idle for longer than a positive IdleTimeout
TooOld(pc) ==
    givenConfig.IdleTimeout > 0 /\ now - pc.lastUsed > givenConfig.IdleTimeout

\* the positions of the usable idle records
UsableIdx ==
    {k \in 1 .. Len(idle) : ~TooOld(idle[k]) /\ alive[idle[k].client]}

Newest(S) == CHOOSE m \in S : \A x \in S : x <= m

Ended(c) == quits[c] + closes[c]

\* the clients at the positions from..Len(idle) are each quit or closed once,
\* and no other connection is
DiscardsFrom(from) ==
    \A c \in Conns :
        Ended(c)' = Ended(c)
                    + (IF \E k \in from .. Len(idle) : idle[k].client = c
                       THEN 1 ELSE 0)

\* C8: with MaxOpen = N > 0 the counter of open connections, and the number
\* of connections idle, borrowed and being dialed, never exceed N; a Get that
\* has no usable idle connection while the counter (less the discarded idle
\* connections) equals N returns ErrPoolFull without dialing; the idle list
\* never holds more than MaxIdle connections, 2 when MaxIdle <= 0.
C8_PoolCapacity ==
    /\ [](givenConfig.MaxOpen > 0 =>
            /\ open <= givenConfig.MaxOpen
            /\ Len(idle) + Outstanding <= givenConfig.MaxOpen)
    /\ [](Len(idle) <= (IF givenConfig.MaxIdle <= 0 THEN 2
                        ELSE givenConfig.MaxIdle))
    /\ [][(/\ GetStep
           /\ ~closed
           /\ givenConfig.MaxOpen > 0
           /\ UsableIdx = {}
           /\ open - Len(idle) = givenConfig.MaxOpen)
          => /\ lastGet'.outcome = "ErrPoolFull"
             /\ UNCHANGED <<dialing, nextConn, borrowed>>]_vars

C8_Witness ==
    /\ lastGet.outcome = "ErrPoolFull"
    /\ ~closed
    /\ open = givenConfig.MaxOpen
    /\ Cardinality(borrowed) + dialing = open
    /\ \E c \in Conns : quits[c] = 1

\* C9: Get on an open pool examines the idle connections newest first: it
\* quits or closes each unusable one it meets (decrementing the counter) and
\* returns the first usable one; it dials only when no idle connection is
\* usable.  Put appends at the newest end.
C9_GetReusesNewest ==
    /\ [][(GetStep /\ ~closed) =>
            IF UsableIdx # {}
            THEN LET m == Newest(UsableIdx)
                 IN  /\ lastGet'.outcome = "reused"
                     /\ borrowed' = borrowed \cup {idle[m].client}
                     /\ idle' = SubSeq(idle, 1, m - 1)
                     /\ open' = open - (Len(idle) - m)
                     /\ DiscardsFrom(m + 1)
                     /\ UNCHANGED <<dialing, nextConn>>
            ELSE /\ idle' = <<>>
                 /\ DiscardsFrom(1)
                 /\ borrowed' = borrowed
                 /\ \/ /\ lastGet'.outcome = "dial"
                       /\ dialing' = dialing + 1
                       /\ open' = open - Len(idle) + 1
                    \/ /\ lastGet'.outcome = "ErrPoolFull"
                       /\ dialing' = dialing
                       /\ open' = open - Len(idle)]_vars
    /\ [][Len(idle') > Len(idle) =>
            \E c \in returning :
                idle' = Append(idle, [client |-> c, lastUsed |-> now])]_vars

C9_Witness ==
    /\ lastGet.outcome = "reused"
    /\ 1 \in borrowed
    /\ ~alive[2]
    /\ closes[2] = 1
    /\ quits[3] = 1
    /\ ~closed

\* C10: the first Close quits each idle connection once and touches no
\* borrowed one; a later Close changes nothing; once closed the idle list
\* stays empty, a Get returns ErrPoolClosed without dialing, and a connection
\* given to Put is quit or closed, never kept.
C10_CloseIsFinal ==
    /\ [](closed => idle = <<>>)
    /\ [](\A c \in Conns : Ended(c) <= 1)
    /\ [][(~closed /\ closed') =>
            /\ quits' = [c \in Conns |->
                           quits[c] + (IF c \in IdleClients(idle) THEN 1 ELSE 0)]
            /\ UNCHANGED <<closes, borrowed, returning, dialing>>]_vars
    /\ [][(closed /\ closeSeq' # closeSeq) =>
            UNCHANGED <<idle, open, closed, borrowed, dialing, returning,
                        quits, closes, nextConn>>]_vars
    /\ [][(closed /\ GetStep) =>
            /\ lastGet'.outcome = "ErrPoolClosed"
            /\ UNCHANGED <<idle, open, borrowed, dialing, returning, quits,
                           closes, nextConn>>]_vars
    /\ [][(closed /\ \E c \in returning : c \notin returning') =>
            \E c \in returning :
                /\ returning' = returning \ {c}
                /\ quits'[c] = quits[c] + 1
                /\ idle' = <<>>]_vars

C10_Witness ==
    /\ closed
    /\ closeSeq = 0
    /\ lastGet.outcome = "ErrPoolClosed"
    /\ quits[1] = 1
    /\ quits[2] = 1
    /\ borrowed = {3}

\* C24: in every reachable state of the pool, for any interleaving of Get,
\* Put (each borrowed connection returned at most once) and Close, the open
\* counter equals the number of connections in the idle list plus the number
\* of connections borrowed or being dialed, and so is never negative.
C24_OpenCountsConnections ==
    /\ open = Len(idle) + Outstanding
    /\ open >= 0

----------------------------------------------------------------------------
(* Interceptor chains, middleware.go *)

\* the kinds of interceptor: RecoveryInterceptor, LoggerInterceptor and a
\* caller-written one, which may or may not invoke its continuation
SendKinds == {"user", "recovery", "logger"}
ReceiveKinds == {"user"}

RECURSIVE SeqsUpTo(_, _)
SeqsUpTo(S, n) ==
    IF n = 0 THEN {<<>>}
    ELSE LET shorter == SeqsUpTo(S, n - 1)
         IN  shorter \cup {Append(q, x) : q \in shorter, x \in S}

Top == mwStack[Len(mwStack)]

PanicOf(id) == [err |-> "panic", by |-> id]
\* fmt.Errorf("panic in sender: %v", r)
PanicRecovered(id) == [err |-> "panic in sender", by |-> id]

IsPanic(v) == v.err = "panic"

\* the deferred function of RecoveryInterceptor: recover() != nil
RecoversNothing(kind) == FALSE
Recovers(kind) == kind = "recovery"

\* the running method ends with r (a result, or a panic that leaves it)
Leave(r) ==
    /\ mwStack' = SubSeq(mwStack, 1, Len(mwStack) - 1)
    /\ mwTrace' = Append(mwTrace, <<"exit", Top.interceptor.id>>)
    /\ mwRet' = [mwRet EXCEPT ![Top.interceptor.id] = r]
    /\ mwFlow' = [mode |-> IF Len(mwStack) = 1 THEN "done"
                           ELSE IF IsPanic(r) THEN "panic" ELSE "back",
                  value |-> r]
    /\ UNCHANGED <<mwOp, mwChain, mwSender>>

\* the method of the wrapped value is entered
Enter(s) ==
    /\ mwStack' = Append(mwStack, s)
    /\ mwTrace' = Append(mwTrace, <<"enter", s.interceptor.id>>)
    /\ mwFlow' = [mode |-> "in", value |-> NoValue]
    /\ UNCHANGED <<mwOp, mwChain, mwSender, mwRet>>

\* the caller calls Send / Receive on the value WrapSender / WrapReceiver
\* returned
MwCall ==
    /\ mwFlow.mode = "idle"
    /\ Enter(mwSender)
    /\ UNCHANGED nonMwVars

\* interceptedSender.Send: s.interceptor(ctx, email, s.Sender.Send), and the
\* interceptor invokes next (lines 42-44, 65, 80)
MwNext ==
    /\ mwFlow.mode = "in"
    /\ Top.interceptor.kind # "transport"
    /\ Enter(Top.Sender)
    /\ UNCHANGED nonMwVars

\* a caller-written interceptor returns without invoking next
MwReturnEarly(e) ==
    /\ mwFlow.mode = "in"
    /\ Top.interceptor.kind = "user"
    /\ Leave([err |-> e, by |-> Top.interceptor.id])
    /\ UNCHANGED nonMwVars

\* the transport's Send / Receive returns
MwTransportReturn(e) ==
    /\ mwFlow.mode = "in"
    /\ Top.interceptor.kind = "transport"
    /\ Leave([err |-> e, by |-> 0])
    /\ UNCHANGED nonMwVars

\* a runtime fault is raised in the transport, in a caller-written
\* interceptor (before or after next) or in logFn (line 66)
MwRaise ==
    /\ \/ mwFlow.mode = "in" /\ Top.interceptor.kind \in {"transport", "user"}
       \/ mwFlow.mode = "back" /\ Top.interceptor.kind \in {"user", "logger"}
    /\ Leave(PanicOf(Top.interceptor.id))
    /\ UNCHANGED nonMwVars

\* next has returned: the interceptor returns next's result (lines 68, 80)
MwReturnNext ==
    /\ mwFlow.mode = "back"
    /\ Leave(mwFlow.value)
    /\ UNCHANGED nonMwVars

\* next has returned: a caller-written interceptor returns its own result
MwReturnOwn(e) ==
    /\ mwFlow.mode = "back"
    /\ Top.interceptor.kind = "user"
    /\ Leave([err |-> e, by |-> Top.interceptor.id])
    /\ UNCHANGED nonMwVars

\* a fault raised by next reaches the interceptor: its deferred functions
\* run (lines 75-79), then the fault goes on to its caller unless recovered
MwUnwind ==
    /\ mwFlow.mode = "panic"
    /\ IF Recovers(Top.interceptor.kind)
       THEN Leave(PanicRecovered(mwFlow.value.by))
       ELSE Leave(mwFlow.value)
    /\ UNCHANGED nonMwVars

InitMiddleware ==
    /\ \/ \E kinds \in SeqsUpTo(SendKinds, MaxInterceptors) :
             Wrapped("Send", kinds)
       \/ \E kinds \in SeqsUpTo(ReceiveKinds, MaxInterceptors) :
             Wrapped("Receive", kinds)
    /\ AllAtRestExcept("middleware")

NextMiddleware ==
    \/ MwCall
    \/ MwNext
    \/ \E e \in {"nil", "err"} : MwReturnEarly(e)
    \/ \E e \in {"nil", "err"} : MwTransportReturn(e)
    \/ MwRaise
    \/ MwReturnNext
    \/ \E e \in {"nil", "err"} : MwReturnOwn(e)
    \/ MwUnwind

SpecMiddleware == InitMiddleware /\ [][NextMiddleware]_vars

----------------------------------------------------------------------------
(* Properties of the interceptor chains *)

\* the layers in list order, the transport (layer 0) last
ListOrder == [k \in 1 .. Len(mwChain) + 1 |->
                IF k <= Len(mwChain) THEN k ELSE 0]

EnterCount == Cardinality({j \in 1 .. Len(mwTrace) : mwTrace[j][1] = "enter"})

\* the layer the layer l hands its continuation to
InnerOf(l) == IF l = Len(mwChain) THEN 0 ELSE l + 1

Outermost == ListOrder[1]

\* C11: the layers are entered in list order, i1 first and the transport
\* last, each only from the continuation of the one before it; they are left
\* in the reverse order; the caller receives what the outermost layer
\* returned.  With no interceptor the transport is entered directly.  The
\* same for WrapReceiver and Receive.
C11_InterceptorOrder ==
    LET k == EnterCount
    IN  /\ k <= Len(mwChain) + 1
        /\ \A j \in 1 .. Len(mwTrace) :
              IF j <= k
              THEN mwTrace[j] = <<"enter", ListOrder[j]>>
              ELSE mwTrace[j] = <<"exit", ListOrder[2 * k + 1 - j]>>
        /\ Len(mwStack) = 2 * k - Len(mwTrace)
        /\ \A d \in 1 .. Len(mwStack) : mwStack[d].interceptor.id = ListOrder[d]
        /\ mwFlow.mode = "done" =>
              /\ mwStack = <<>>
              /\ mwFlow.value = mwRet[Outermost]
              /\ mwFlow.value # NoValue

C11_Witness ==
    /\ mwFlow.mode = "done"
    /\ mwOp = "Receive"
    /\ Len(mwChain) = 2
    /\ Len(mwTrace) = 6
    /\ mwFlow.value = [err |-> "err", by |-> 1]

\* C12: a fault raised inside the Recovery interceptor never leaves it: it
\* returns a non-nil error instead, and so a Sender whose outermost
\* interceptor is Recovery never faults; when its continuation returns,
\* Recovery returns that result unchanged.
C12_RecoveryContainsFaults ==
    /\ \A r \in 1 .. Len(mwChain) :
          (mwChain[r] = "recovery" /\ mwRet[r] # NoValue) =>
              /\ ~IsPanic(mwRet[r])
              /\ IF IsPanic(mwRet[InnerOf(r)])
                 THEN mwRet[r].err \notin {"nil", "none"}
                 ELSE mwRet[r] = mwRet[InnerOf(r)]
    /\ (mwChain # <<>> /\ mwChain[1] = "recovery" /\ mwFlow.mode = "done") =>
          ~IsPanic(mwFlow.value)

C12_Witness ==
    /\ mwFlow.mode = "done"
    /\ Len(mwChain) = 2
    /\ mwChain[1] = "recovery"
    /\ IsPanic(mwRet[0])
    /\ IsPanic(mwRet[2])
    /\ mwFlow.value = PanicRecovered(0)

----------------------------------------------------------------------------
(* Package-level operations, gsmail.go: Send, Receive, Search, Idle, Ping *)

\* the provider arguments: the nil interface value, a nil pointer of a
\* provider type, a provider, and (for Ping) a value of another type
SenderArgs == {"nil", "nilSenderPointer", "sender"}
ReceiverArgs == {"nil", "nilReceiverPointer", "receiver"}
PingArgs == SenderArgs \cup ReceiverArgs \cup {"other"}

ApiCalls ==
    {[op |-> "Send", arg |-> a, ctxDone |-> d] :
        a \in SenderArgs, d \in BOOLEAN}
    \cup {[op |-> o, arg |-> a, ctxDone |-> d] :
            o \in {"Receive", "Search", "Idle"}, a \in ReceiverArgs,
            d \in BOOLEAN}
    \cup {[op |-> "Ping", arg |-> a, ctxDone |-> d] :
            a \in PingArgs, d \in BOOLEAN}

\* s == nil, f == nil: true of the nil interface value only
IsNilNever(arg) == FALSE
IsNil(arg) == arg = "nil"

\* p.(Sender), p.(Receiver): the dynamic type implements the interface
IsSender(arg) == arg \in {"nilSenderPointer", "sender"}
IsReceiver(arg) == arg \in {"nilReceiverPointer", "receiver"}

\* the capacity of errChan, make(chan error, 1)
IdleErrCapacity == 1

\* Send, Receive, Search with a nil provider: return the error
ApiNilReturn ==
    /\ apiPc = "start"
    /\ apiCall.op \in {"Send", "Receive", "Search"}
    /\ IsNil(apiCall.arg)
    /\ apiPc' = "returned"
    /\ apiErr' = apiCall.op \o ": provider is nil"
    /\ UNCHANGED <<apiCall, apiProviderCalls, apiEmailChan, apiErrChan,
                   apiReads>>
    /\ UNCHANGED nonApiVars

\* Send, Receive, Search, Idle: the provider's method is called
ApiDelegate ==
    /\ apiPc = "start"
    /\ apiCall.op # "Ping"
    /\ ~IsNil(apiCall.arg)
    /\ apiPc' = "inProvider"
    /\ apiProviderCalls' = Append(apiProviderCalls, apiCall.op)
    /\ UNCHANGED <<apiCall, apiErr, apiEmailChan, apiErrChan, apiReads>>
    /\ UNCHANGED nonApiVars

\* Ping: the two type assertions, Sender first
ApiPing ==
    /\ apiPc = "start"
    /\ apiCall.op = "Ping"
    /\ IF IsSender(apiCall.arg) \/ IsReceiver(apiCall.arg)
       THEN /\ apiPc' = "inProvider"
            /\ apiProviderCalls' = Append(apiProviderCalls, "Ping")
            /\ UNCHANGED apiErr
       ELSE /\ apiPc' = "returned"
            /\ apiErr' = "provider does not implement Sender or Receiver"
            /\ UNCHANGED apiProviderCalls
    /\ UNCHANGED <<apiCall, apiEmailChan, apiErrChan, apiReads>>
    /\ UNCHANGED nonApiVars

\* the provider's method returns nil or an error
ApiProviderReturns(e) ==
    /\ apiPc = "inProvider"
    /\ apiPc' = "returned"
    /\ apiErr' = e
    /\ UNCHANGED <<apiCall, apiProviderCalls, apiEmailChan, apiErrChan,
                   apiReads>>
    /\ UNCHANGED nonApiVars

\* the method of a nil pointer dereferences its receiver
ApiProviderFaults ==
    /\ apiPc = "inProvider"
    /\ apiCall.arg \in {"nilSenderPointer", "nilReceiverPointer", "nil"}
    /\ apiPc' = "fault"
    /\ UNCHANGED <<apiCall, apiErr, apiProviderCalls, apiEmailChan,
                   apiErrChan, apiReads>>
    /\ UNCHANGED nonApiVars

\* Idle with a nil Receiver: the two make calls
ApiIdleMake ==
    /\ apiPc = "start"
    /\ apiCall.op = "Idle"
    /\ IsNil(apiCall.arg)
    /\ apiEmailChan' = [cap |-> 0, buf |-> <<>>, closed |-> FALSE,
                        made |-> TRUE]
    /\ apiErrChan' = [cap |-> IdleErrCapacity, buf |-> <<>>,
                      closed |-> FALSE, made |-> TRUE]
    /\ apiPc' = "closeEmail"
    /\ UNCHANGED <<apiCall, apiErr, apiProviderCalls, apiReads>>
    /\ UNCHANGED nonApiVars

\* close(emailChan)
ApiIdleCloseEmail ==
    /\ apiPc = "closeEmail"
    /\ apiEmailChan' = [apiEmailChan EXCEPT !.closed = TRUE]
    /\ apiPc' = "sendErr"
    /\ UNCHANGED <<apiCall, apiErr, apiProviderCalls, apiErrChan, apiReads>>
    /\ UNCHANGED nonApiVars

\* errChan <- fmt.Errorf("receiver is nil"): proceeds when the buffer has
\* room (nobody else holds the channel yet)
ApiIdleSendErr ==
    /\ apiPc = "sendErr"
    /\ Len(apiErrChan.buf) < apiErrChan.cap
    /\ apiErrChan' = [apiErrChan EXCEPT !.buf = Append(@, "receiver is nil")]
    /\ apiPc' = "closeErr"
    /\ UNCHANGED <<apiCall, apiErr, apiProviderCalls, apiEmailChan, apiReads>>
    /\ UNCHANGED nonApiVars

\* close(errChan); return emailChan, errChan
ApiIdleCloseErr ==
    /\ apiPc = "closeErr"
    /\ apiErrChan' = [apiErrChan EXCEPT !.closed = TRUE]
    /\ apiPc' = "returned"
    /\ UNCHANGED <<apiCall, apiErr, apiProviderCalls, apiEmailChan, apiReads>>
    /\ UNCHANGED nonApiVars

\* what a receive from the channel yields: a buffered value, or "closed"
\* when the channel is closed and empty
CanReceive(ch) == ch.buf # <<>> \/ ch.closed
Received(ch) == IF ch.buf # <<>> THEN Head(ch.buf) ELSE "closed"
AfterReceive(ch) ==
    IF ch.buf # <<>> THEN [ch EXCEPT !.buf = Tail(@)] ELSE ch

\* the caller of Idle receives from the email stream
ApiReadEmail ==
    /\ apiPc = "returned"
    /\ apiEmailChan.made
    /\ Len(apiReads.email) < MaxReads
    /\ CanReceive(apiEmailChan)
    /\ apiReads' = [apiReads EXCEPT !.email = Append(@, Received(apiEmailChan))]
    /\ apiEmailChan' = AfterReceive(apiEmailChan)
    /\ UNCHANGED <<apiCall, apiPc, apiErr, apiProviderCalls, apiErrChan>>
    /\ UNCHANGED nonApiVars

\* the caller of Idle receives from the error stream
ApiReadErr ==
    /\ apiPc = "returned"
    /\ apiErrChan.made
    /\ Len(apiReads.err) < MaxReads
    /\ CanReceive(apiErrChan)
    /\ apiReads' = [apiReads EXCEPT !.err = Append(@, Received(apiErrChan))]
    /\ apiErrChan' = AfterReceive(apiErrChan)
    /\ UNCHANGED <<apiCall, apiPc, apiErr, apiProviderCalls, apiEmailChan>>
    /\ UNCHANGED nonApiVars

InitApi ==
    /\ \E c \in ApiCalls : ApiEntry(c.op, c.arg, c.ctxDone)
    /\ AllAtRestExcept("api")

NextApi ==
    \/ ApiNilReturn
    \/ ApiDelegate
    \/ ApiPing
    \/ \E e \in {"nil", "err"} : ApiProviderReturns(e)
    \/ ApiProviderFaults
    \/ ApiIdleMake
    \/ ApiIdleCloseEmail
    \/ ApiIdleSendErr
    \/ ApiIdleCloseErr
    \/ ApiReadEmail
    \/ ApiReadErr

SpecApi == InitApi /\ [][NextApi]_vars

\* C13: an operation called with the nil provider never faults and never
\* calls a provider method: Send, Receive and Search return a non-nil error;
\* Ping returns a non-nil error for nil and for a value that is neither a
\* Sender nor a Receiver; Idle returns a closed email stream and an error
\* stream that yields exactly one error and is then closed.
C13_AbsentProviderFailsFast ==
    /\ apiCall.arg \in {"nil", "other"} =>
          /\ apiPc # "fault"
          /\ apiProviderCalls = <<>>
          /\ apiPc = "returned" =>
                IF apiCall.op = "Idle"
                THEN /\ apiEmailChan.closed /\ apiEmailChan.buf = <<>>
                     /\ apiErrChan.closed
                     /\ \A k \in 1 .. Len(apiReads.email) :
                           apiReads.email[k] = "closed"
                     /\ apiReads.err \o apiErrChan.buf \in
                           {<<"receiver is nil">>,
                            <<"receiver is nil", "closed">>,
                            <<"receiver is nil", "closed", "closed">>}
                ELSE apiErr \notin {"none", "nil"}
    /\ apiPc = "sendErr" => Len(apiErrChan.buf) < apiErrChan.cap

C13_Witness ==
    /\ apiCall.op = "Idle"
    /\ apiCall.arg = "nil"
    /\ apiPc = "returned"
    /\ apiReads.err = <<"receiver is nil", "closed">>
    /\ apiReads.email = <<"closed">>

----------------------------------------------------------------------------
(* CheckDomainHealth, health.go *)

\* domain == "": return the error
DhRejectEmptyDomain ==
    /\ dhPc = "check"
    /\ dhPc' = "returned"
    /\ dhErr' = "domain is required"
    /\ UNCHANGED <<dhInput, dhCtxDone, dhCancelEarly, dhLookupPc, dhWg,
                   dhClosed, dhCollected>>
    /\ UNCHANGED nonDhVars

\* a lookup goroutine has its result and reaches its select
DhLookupDone(l) ==
    /\ dhLookupPc[l] = "lookup"
    /\ dhLookupPc' = [dhLookupPc EXCEPT ![l] = "select"]
    /\ UNCHANGED <<dhInput, dhCtxDone, dhCancelEarly, dhWg, dhClosed,
                   dhCollected, dhPc, dhErr>>
    /\ UNCHANGED nonDhVars

\* case resChan <- result: the unbuffered channel hands the result to the
\* collecting loop, which is in its select and takes the case r, ok :=
\* <-resChan, storing the result in health; the goroutine then runs wg.Done
DhHandOver(l) ==
    /\ dhLookupPc[l] = "select"
    /\ dhPc = "collect"
    /\ dhLookupPc' = [dhLookupPc EXCEPT ![l] = "done"]
    /\ dhCollected' = dhCollected \cup {l}
    /\ dhWg' = dhWg - 1
    /\ UNCHANGED <<dhInput, dhCtxDone, dhCancelEarly, dhClosed, dhPc, dhErr>>
    /\ UNCHANGED nonDhVars

\* case <-ctx.Done() of a lookup goroutine; then wg.Done
DhGiveUp(l) ==
    /\ dhLookupPc[l] = "select"
    /\ dhCtxDone
    /\ dhLookupPc' = [dhLookupPc EXCEPT ![l] = "done"]
    /\ dhWg' = dhWg - 1
    /\ UNCHANGED <<dhInput, dhCtxDone, dhCancelEarly, dhClosed, dhCollected,
                   dhPc, dhErr>>
    /\ UNCHANGED nonDhVars

\* the closer goroutine: wg.Wait() returns, close(resChan)
DhClose ==
    /\ dhInput.domain # ""
    /\ ~dhClosed
    /\ dhWg = 0
    /\ dhClosed' = TRUE
    /\ UNCHANGED <<dhInput, dhCtxDone, dhCancelEarly, dhLookupPc, dhWg,
                   dhCollected, dhPc, dhErr>>
    /\ UNCHANGED nonDhVars

\* the collecting loop takes case <-ctx.Done(): return health, ctx.Err()
DhCollectCancelled ==
    /\ dhPc = "collect"
    /\ dhCtxDone
    /\ dhPc' = "returned"
    /\ dhErr' = "context.Canceled"
    /\ UNCHANGED <<dhInput, dhCtxDone, dhCancelEarly, dhLookupPc, dhWg,
                   dhClosed, dhCollected>>
    /\ UNCHANGED nonDhVars

\* the collecting loop receives from the closed resChan: return health, nil
DhCollectClosed ==
    /\ dhPc = "collect"
    /\ dhClosed
    /\ dhPc' = "returned"
    /\ dhErr' = "nil"
    /\ UNCHANGED <<dhInput, dhCtxDone, dhCancelEarly, dhLookupPc, dhWg,
                   dhClosed, dhCollected>>
    /\ UNCHANGED nonDhVars

\* the caller's context is cancelled while CheckDomainHealth runs
DhCancel ==
    /\ ~dhCtxDone
    /\ dhPc = "collect"
    /\ dhCtxDone' = TRUE
    /\ dhCancelEarly' = (dhCollected # Lookups(dhInput.selectors))
    /\ UNCHANGED <<dhInput, dhLookupPc, dhWg, dhClosed, dhCollected, dhPc,
                   dhErr>>
    /\ UNCHANGED nonDhVars

InitDomainHealth ==
    /\ \E domain \in {"", "example.com"}, nsel \in 0 .. MaxSelectors,
          cancelled \in BOOLEAN :
          DomainHealthEntry(domain, nsel, cancelled)
    /\ AllAtRestExcept("health")

NextDomainHealth ==
    \/ DhRejectEmptyDomain
    \/ \E l \in LookupIds : DhLookupDone(l)
    \/ \E l \in LookupIds : DhHandOver(l)
    \/ \E l \in LookupIds : DhGiveUp(l)
    \/ DhClose
    \/ DhCollectCancelled
    \/ DhCollectClosed
    \/ DhCancel

SpecDomainHealth == InitDomainHealth /\ [][NextDomainHealth]_vars

\* C14: if the context is cancelled before every lookup result has been
\* collected (also when it is cancelled before the call), CheckDomainHealth
\* returns the context's cancellation error.
C14_CancelledHealthCheckFails ==
    (dhPc = "returned" /\ dhInput.domain # "" /\ dhCancelEarly) =>
        dhErr = "context.Canceled"

\* C26: whenever CheckDomainHealth returns a nil error, the returned
\* DomainHealth holds the collected result of every launched lookup (MX, SPF,
\* DMARC and a DKIM entry for every selector supplied), under any
\* interleaving and any cancellation timing.
C26_NilMeansComplete ==
    (dhPc = "returned" /\ dhErr = "nil") =>
        dhCollected = Lookups(dhInput.selectors)

----------------------------------------------------------------------------
(* One SMTP submission attempt, smtp/smtp.go, and IMAP connect and
   authenticate, imap/imap.go *)

Addresses == {"a", "b"}
AuthMethods == {"none", "plain", "xoauth2", "oauthbearer"}

\* p.AuthMethod == AuthXOAUTH2 || p.AuthMethod == AuthOAUTHBEARER
IsOAuth(cfg) == cfg.AuthMethod \in {"xoauth2", "oauthbearer"}

\* auth != nil: OAuth, or a Username for PLAIN
HasAuth(cfg) == cfg.AuthMethod # "none"

\* Send, lines 72-75: To, then Cc, then Bcc
RecipientsCcFirst(cfg) == cfg.Cc \o cfg.To \o cfg.Bcc
Recipients(cfg) == cfg.To \o cfg.Cc \o cfg.Bcc

\* sendPlain, line 274: requireTLS && !tlsOn && !p.AllowInsecureAuth
SendPlainRefusesNever(cfg, tlsOn) == FALSE
SendPlainRefuses(cfg, tlsOn) ==
    IsOAuth(cfg) /\ ~tlsOn /\ ~cfg.AllowInsecureAuth

\* the pool's dialer, lines 145-149
DialerRefuses(cfg, tlsOn) ==
    IsOAuth(cfg) /\ ~tlsOn /\ ~cfg.AllowInsecureAuth

\* Receiver.authenticate, lines 119-122
ImapRefuses(cfg, tlsOn) ==
    IsOAuth(cfg) /\ ~tlsOn /\ ~cfg.AllowInsecureAuth

SessionConfigs ==
    {c \in [protocol : {"smtp", "imap"}, pooled : BOOLEAN, SSL : BOOLEAN,
            AuthMethod : AuthMethods, AllowInsecureAuth : BOOLEAN,
            TokenSource : BOOLEAN,
            To : SeqsUpTo(Addresses, MaxPerField),
            Cc : SeqsUpTo(Addresses, MaxPerField),
            Bcc : SeqsUpTo(Addresses, MaxPerField)] :
        /\ c.protocol = "imap" =>
              ~c.pooled /\ c.To = <<>> /\ c.Cc = <<>> /\ c.Bcc = <<>>
        /\ ~IsOAuth(c) => c.TokenSource}

SesFail(kind, arg) ==
    /\ sesPc' = "failed"
    /\ sesErr' = <<kind, arg>>

SesLogged(cmd, arg, ok) == sesLog' = Append(sesLog, <<cmd, arg, ok>>)

\* the token of lines 93-99, 150-158, 123-129: nil source, failing source
TokenFailure(cfg, tokOk) ==
    IF ~IsOAuth(cfg) THEN "none"
    ELSE IF ~cfg.TokenSource THEN "oauth2 token source is nil"
    ELSE IF ~tokOk THEN "token source"
    ELSE "none"

\* Send without a pool, lines 88-107: build auth before dialing
SesBuildAuth(tokOk) ==
    /\ sesPc = "start"
    /\ sesCfg.protocol = "smtp" /\ ~sesCfg.pooled
    /\ (IsOAuth(sesCfg) /\ sesCfg.TokenSource) \/ tokOk
    /\ IF TokenFailure(sesCfg, tokOk) # "none"
       THEN SesFail(TokenFailure(sesCfg, tokOk), "")
       ELSE sesPc' = "dial" /\ UNCHANGED sesErr
    /\ UNCHANGED <<sesCfg, sesTls, sesDialed, sesLog, sesAttempt>>
    /\ UNCHANGED nonSesVars

\* Send with a pool, lines 78-83: Pool.Get fails, returns an idle client, or
\* runs the dialer
SesPoolGet(outcome) ==
    /\ sesPc = "start"
    /\ sesCfg.protocol = "smtp" /\ sesCfg.pooled
    /\ CASE outcome = "error" -> SesFail("pool get", "")
         [] outcome = "idle" -> sesPc' = "mail" /\ UNCHANGED sesErr
         [] outcome = "dial" -> sesPc' = "dial" /\ UNCHANGED sesErr
    /\ UNCHANGED <<sesCfg, sesTls, sesDialed, sesLog, sesAttempt>>
    /\ UNCHANGED nonSesVars

\* Sender.dial (lines 286-318) and Receiver.connect up to the TLS handshake
\* (lines 64-99)
SesDial(result) ==
    /\ \/ sesPc = "dial"
       \/ (sesPc = "start" /\ sesCfg.protocol = "imap")
    /\ result = "tls handshake" => sesCfg.SSL
    /\ IF result # "ok"
       THEN SesFail(result, "") /\ UNCHANGED <<sesTls, sesDialed>>
       ELSE /\ sesDialed' = TRUE
            /\ sesTls' = sesCfg.SSL
            /\ sesPc' = IF ~sesCfg.SSL THEN "starttls"
                        ELSE IF sesCfg.protocol = "smtp" /\ ~sesCfg.pooled
                        THEN "auth"
                        ELSE "tlsCheck"
            /\ UNCHANGED sesErr
    /\ UNCHANGED <<sesCfg, sesLog, sesAttempt>>
    /\ UNCHANGED nonSesVars

\* opportunistic STARTTLS: sendPlain 262-272, dialer 128-141, connect 102-113
SesStartTLS(supported, ok) ==
    /\ sesPc = "starttls"
    /\ supported \/ ok
    /\ IF ~supported
       THEN sesPc' = "tlsCheck" /\ UNCHANGED <<sesTls, sesLog, sesErr>>
       ELSE /\ SesLogged("STARTTLS", "", ok)
            /\ IF ok
               THEN sesTls' = TRUE /\ sesPc' = "tlsCheck" /\ UNCHANGED sesErr
               ELSE SesFail("starttls", "") /\ UNCHANGED sesTls
    /\ UNCHANGED <<sesCfg, sesDialed, sesAttempt>>
    /\ UNCHANGED nonSesVars

\* the OAuth-needs-TLS test of the path, and for the dialer and IMAP the
\* token after it
SesTlsCheck(tokOk) ==
    /\ sesPc = "tlsCheck"
    /\ IF sesCfg.protocol = "smtp" /\ ~sesCfg.pooled
       THEN /\ tokOk
            /\ IF SendPlainRefuses(sesCfg, sesTls)
               THEN SesFail("oauth2 requires TLS", "")
               ELSE sesPc' = "auth" /\ UNCHANGED sesErr
       ELSE /\ (IsOAuth(sesCfg) /\ sesCfg.TokenSource) \/ tokOk
            /\ IF IF sesCfg.protocol = "smtp"
                  THEN DialerRefuses(sesCfg, sesTls)
                  ELSE ImapRefuses(sesCfg, sesTls)
               THEN SesFail("oauth2 requires TLS", "")
               ELSE IF TokenFailure(sesCfg, tokOk) # "none"
               THEN SesFail(TokenFailure(sesCfg, tokOk), "")
               ELSE sesPc' = "auth" /\ UNCHANGED sesErr
    /\ UNCHANGED <<sesCfg, sesTls, sesDialed, sesLog, sesAttempt>>
    /\ UNCHANGED nonSesVars

\* authenticateAndSend 242-249, dialer 168-177: the AUTH extension and
\* client.Auth; authenticate 136-143: c.Authenticate or c.Login
SesAuth(extOk, ok) ==
    /\ sesPc = "auth"
    /\ IF sesCfg.protocol = "smtp"
       THEN IF ~HasAuth(sesCfg)
            THEN /\ extOk /\ ok
                 /\ sesPc' = "mail"
                 /\ UNCHANGED <<sesLog, sesErr>>
            ELSE IF ~extOk
            THEN /\ ok
                 /\ SesFail("smtp server does not support AUTH", "")
                 /\ UNCHANGED sesLog
            ELSE /\ SesLogged("AUTH", <<sesCfg.AuthMethod, sesTls>>, ok)
                 /\ IF ok THEN sesPc' = "mail" /\ UNCHANGED sesErr
                    ELSE SesFail("smtp auth", "")
       ELSE /\ extOk
            /\ SesLogged(IF IsOAuth(sesCfg) THEN "AUTHENTICATE" ELSE "LOGIN",
                         <<sesCfg.AuthMethod, sesTls>>, ok)
            /\ IF ok THEN sesPc' = "done" /\ UNCHANGED sesErr
               ELSE SesFail("imap authenticate", "")
    /\ UNCHANGED <<sesCfg, sesTls, sesDialed, sesAttempt>>
    /\ UNCHANGED nonSesVars

\* sendOnClient, lines 210-212: client.Mail(from)
SesMail(ok) ==
    /\ sesPc = "mail"
    /\ SesLogged("MAIL", "from", ok)
    /\ IF ok
       THEN /\ sesPc' = IF Recipients(sesCfg) = <<>> THEN "data" ELSE "rcpt"
            /\ UNCHANGED sesErr
       ELSE SesFail("smtp mail from", "")
    /\ UNCHANGED <<sesCfg, sesTls, sesDialed, sesAttempt>>
    /\ UNCHANGED nonSesVars

RcptIssued == Cardinality({j \in 1 .. Len(sesLog) : sesLog[j][1] = "RCPT"})

\* sendOnClient, lines 214-218: client.Rcpt(t) for the next recipient
SesRcpt(ok) ==
    /\ sesPc = "rcpt"
    /\ LET k == RcptIssued + 1
           t == Recipients(sesCfg)[k]
       IN  /\ SesLogged("RCPT", t, ok)
           /\ IF ok
              THEN /\ sesPc' = IF k = Len(Recipients(sesCfg)) THEN "data"
                               ELSE "rcpt"
                   /\ UNCHANGED sesErr
              ELSE SesFail("smtp rcpt to", t)
    /\ UNCHANGED <<sesCfg, sesTls, sesDialed, sesAttempt>>
    /\ UNCHANGED nonSesVars

\* writeData, lines 223-239: client.Data(), w.Write, w.Close
SesData(result) ==
    /\ sesPc = "data"
    /\ SesLogged("DATA", "", result # "smtp data")
    /\ IF result = "ok" THEN sesPc' = "done" /\ UNCHANGED sesErr
       ELSE SesFail(result, "")
    /\ UNCHANGED <<sesCfg, sesTls, sesDialed, sesAttempt>>
    /\ UNCHANGED nonSesVars

\* Retry runs the attempt again after a failure
SesRetry ==
    /\ sesPc = "failed"
    /\ sesAttempt < MaxAttempts
    /\ sesAttempt' = sesAttempt + 1
    /\ sesPc' = "start"
    /\ sesTls' = FALSE
    /\ sesDialed' = FALSE
    /\ sesLog' = <<>>
    /\ sesErr' = <<"none", "">>
    /\ UNCHANGED sesCfg
    /\ UNCHANGED nonSesVars

InitSession ==
    /\ \E cfg \in SessionConfigs : SessionEntry(cfg)
    /\ AllAtRestExcept("session")

NextSession ==
    \/ \E tokOk \in BOOLEAN : SesBuildAuth(tokOk)
    \/ \E outcome \in {"error", "idle", "dial"} : SesPoolGet(outcome)
    \/ \E result \in {"ok", "dial", "tls handshake"} : SesDial(result)
    \/ \E supported, ok \in BOOLEAN : SesStartTLS(supported, ok)
    \/ \E tokOk \in BOOLEAN : SesTlsCheck(tokOk)
    \/ \E extOk, ok \in BOOLEAN : SesAuth(extOk, ok)
    \/ \E ok \in BOOLEAN : SesMail(ok)
    \/ \E ok \in BOOLEAN : SesRcpt(ok)
    \/ \E result \in {"ok", "smtp data", "write message", "close data writer"} :
          SesData(result)
    \/ SesRetry

SpecSession == InitSession /\ [][NextSession]_vars

----------------------------------------------------------------------------
(* Properties of a submission attempt *)

IsSubmissionCmd(e) == e[1] \in {"MAIL", "RCPT", "DATA"}

\* the MAIL FROM, RCPT TO and DATA commands of the attempt so far
SubmissionCmds == SelectSeq(sesLog, IsSubmissionCmd)

\* MAIL FROM, one RCPT TO per address of To, Cc, Bcc in that order, DATA
ExpectedCmds ==
    LET rc == sesCfg.To \o sesCfg.Cc \o sesCfg.Bcc
    IN  <<<<"MAIL", "from">>>>
        \o [k \in 1 .. Len(rc) |-> <<"RCPT", rc[k]>>]
        \o <<<<"DATA", "">>>>

\* C15: in every SMTP submission attempt the commands are MAIL FROM, then
\* one RCPT TO per address of To, Cc, Bcc in list order, then DATA; a command
\* is issued only if all before it succeeded; the first failing RCPT TO ends
\* the attempt with an error naming that recipient.
C15_SubmissionCommandOrder ==
    sesCfg.protocol = "smtp" =>
        LET sub == SubmissionCmds
        IN  /\ Len(sub) <= Len(ExpectedCmds)
            /\ \A j \in 1 .. Len(sub) :
                  /\ <<sub[j][1], sub[j][2]>> = ExpectedCmds[j]
                  /\ j < Len(sub) => sub[j][3]
                  /\ (sub[j][1] = "RCPT" /\ ~sub[j][3]) =>
                        /\ sesPc = "failed"
                        /\ sesErr = <<"smtp rcpt to", sub[j][2]>>
            /\ sesPc = "done" =>
                  /\ Len(sub) = Len(ExpectedCmds)
                  /\ \A j \in 1 .. Len(sub) : sub[j][3]

C15_Witness ==
    /\ sesCfg.protocol = "smtp"
    /\ sesCfg.pooled
    /\ sesCfg.To = <<"a">> /\ sesCfg.Cc = <<"b">> /\ sesCfg.Bcc = <<"a">>
    /\ sesAttempt = 2
    /\ sesPc = "failed"
    /\ sesErr = <<"smtp rcpt to", "b">>
    /\ Len(SubmissionCmds) = 3

IsAuthCmd(e) == e[1] \in {"AUTH", "AUTHENTICATE"}

\* C16: with XOAUTH2 or OAUTHBEARER and AllowInsecureAuth false, no
\* authentication command is issued on a connection without TLS, on the
\* SMTP paths (SSL, opportunistic STARTTLS, the pool's dialer) and in IMAP
\* authenticate; a dialed connection left without TLS makes the attempt
\* fail before any authentication command.
C16_OAuthNeedsTLS ==
    (IsOAuth(sesCfg) /\ ~sesCfg.AllowInsecureAuth) =>
        /\ \A j \in 1 .. Len(sesLog) : IsAuthCmd(sesLog[j]) => sesLog[j][2][2]
        /\ (/\ sesDialed
            /\ ~sesTls
            /\ sesPc \notin {"start", "dial", "starttls", "tlsCheck"}) =>
              /\ sesPc = "failed"
              /\ SelectSeq(sesLog, IsAuthCmd) = <<>>

C16_Witness ==
    /\ sesCfg.protocol = "smtp"
    /\ ~sesCfg.pooled
    /\ sesCfg.AuthMethod = "xoauth2"
    /\ ~sesCfg.AllowInsecureAuth
    /\ sesDialed
    /\ sesPc = "failed"
    /\ sesErr = <<"oauth2 requires TLS", "">>

----------------------------------------------------------------------------
(* Receiver.fetch, imap/imap.go *)

\* what the server can send for one message: a message that parses, one
\* whose body cannot be read, one that does not parse, and a nil message
MessageKinds == {"ok", "unreadable", "unparsable", "nil"}

\* Receive asks for the range count-limit+1 .. count, which with limit = 0
\* is count+1 .. count and names the newest message
FetchInputs ==
    {<<limit, served>> \in
        (0 .. MaxLimit) \X SeqsUpTo(MessageKinds, MaxLimit) :
            Len(served) <= (IF limit = 0 THEN 1 ELSE limit)}

\* c.Fetch writes the next message to fetchMessages (capacity limit); with
\* capacity 0 the write is a handover to the forwarding goroutine waiting in
\* its range over fetchMessages
FetchServe ==
    /\ ~fetch.fetchClosed
    /\ fetch.sent < Len(fetch.served)
    /\ IF fetch.limit = 0
       THEN /\ fetch.held = "none"
            /\ fetch' = [fetch EXCEPT !.sent = @ + 1,
                                      !.held = fetch.served[fetch.sent + 1]]
       ELSE /\ Len(fetch.fetchMessages) < fetch.limit
            /\ fetch' = [fetch EXCEPT
                           !.sent = @ + 1,
                           !.fetchMessages =
                               Append(@, fetch.served[fetch.sent + 1])]
    /\ UNCHANGED nonFetchVars

\* c.Fetch returns e and closes fetchMessages; done <- e (line 333)
FetchReturns(e) ==
    /\ ~fetch.fetchClosed
    /\ e = "nil" => fetch.sent = Len(fetch.served)
    /\ fetch' = [fetch EXCEPT !.fetchClosed = TRUE, !.done = <<e>>]
    /\ UNCHANGED nonFetchVars

\* the forwarding goroutine: for msg := range fetchMessages (line 339)
FetchIndexTakes ==
    /\ fetch.held = "none"
    /\ fetch.fetchMessages # <<>>
    /\ fetch' = [fetch EXCEPT !.fetchMessages = Tail(@),
                              !.held = Head(fetch.fetchMessages)]
    /\ UNCHANGED nonFetchVars

\* messages <- indexedMessage{idx: count, msg: msg}; count++ (lines 340-341);
\* the write blocks while messages (capacity limit) is full, and with
\* capacity 0 it needs a worker, of which there is none when limit is 0
FetchIndex ==
    /\ fetch.held # "none"
    /\ Len(fetch.messages) < fetch.limit
    /\ fetch' = [fetch EXCEPT
                   !.held = "none",
                   !.messages = Append(@, [idx |-> fetch.count,
                                           msg |-> fetch.held]),
                   !.count = @ + 1]
    /\ UNCHANGED nonFetchVars

\* the range over fetchMessages ends; defer close(messages) (line 338)
FetchIndexEnds ==
    /\ fetch.held = "none"
    /\ fetch.fetchMessages = <<>>
    /\ fetch.fetchClosed
    /\ ~fetch.messagesClosed
    /\ fetch' = [fetch EXCEPT !.messagesClosed = TRUE]
    /\ UNCHANGED nonFetchVars

\* a worker: for res := range messages (line 362)
FetchWorkerTakes(w) ==
    /\ fetch.worker[w] = "range"
    /\ fetch.messages # <<>>
    /\ fetch' = [fetch EXCEPT !.worker[w] = "select",
                              !.res[w] = Head(fetch.messages),
                              !.messages = Tail(@)]
    /\ UNCHANGED nonFetchVars

\* a worker: the range over messages ends; defer wg.Done() (line 361)
FetchWorkerEnds(w) ==
    /\ fetch.worker[w] = "range"
    /\ fetch.messages = <<>>
    /\ fetch.messagesClosed
    /\ fetch' = [fetch EXCEPT !.worker[w] = "returned", !.wg = @ - 1]
    /\ UNCHANGED nonFetchVars

\* a worker: select { case <-ctx.Done(): return; default: } found ctx done
FetchWorkerCancelled(w) ==
    /\ fetch.worker[w] = "select"
    /\ fetch.ctxDone
    /\ fetch' = [fetch EXCEPT !.worker[w] = "returned",
                              !.res[w] = NoMessage,
                              !.wg = @ - 1]
    /\ UNCHANGED nonFetchVars

\* the worker writes no result
NoResult == [index |-> -1, err |-> "none"]

\* the result a worker writes for a message (lines 369-386)
ResultOf(res) ==
    IF res.msg = "unreadable" THEN [index |-> 0, err |-> "imap read body"]
    ELSE IF res.msg = "ok" THEN [index |-> res.idx, err |-> "nil"]
    ELSE NoResult

\* a worker: the body of its loop for one message (lines 369-386); sending
\* on results (capacity limit) blocks while it is full
FetchWorkerProcess(w) ==
    /\ fetch.worker[w] = "select"
    /\ ~fetch.ctxDone
    /\ LET r == ResultOf(fetch.res[w])
       IN  IF r = NoResult
           THEN fetch' = [fetch EXCEPT !.worker[w] = "range",
                                       !.res[w] = NoMessage]
           ELSE /\ Len(fetch.results) < fetch.limit
                /\ fetch' = [fetch EXCEPT !.worker[w] = "range",
                                          !.res[w] = NoMessage,
                                          !.results = Append(@, r)]
    /\ UNCHANGED nonFetchVars

\* wg.Wait(); close(results) (lines 392-393)
FetchCloseResults ==
    /\ fetch.wg = 0
    /\ ~fetch.resultsClosed
    /\ fetch' = [fetch EXCEPT !.resultsClosed = TRUE]
    /\ UNCHANGED nonFetchVars

\* for res := range results (lines 398-404)
FetchCollect ==
    /\ fetch.pc = "collect"
    /\ fetch.results # <<>>
    /\ LET r == Head(fetch.results)
       IN  fetch' = [fetch EXCEPT
                       !.results = Tail(@),
                       !.fetchErr = IF r.err # "nil" THEN r.err ELSE @,
                       !.emailsMap = IF r.err # "nil" THEN @
                                     ELSE @ \cup {r.index}]
    /\ UNCHANGED nonFetchVars

\* the range over results ends
FetchCollectEnds ==
    /\ fetch.pc = "collect"
    /\ fetch.results = <<>>
    /\ fetch.resultsClosed
    /\ fetch' = [fetch EXCEPT !.pc = "done"]
    /\ UNCHANGED nonFetchVars

\* if err := <-done; err != nil { ... } (lines 406-412)
FetchErrAfterDone(fetchErr, err) ==
    IF err = "nil" THEN fetchErr
    ELSE IF fetchErr # "nil" THEN "imap read body (fetch error)"
    ELSE "imap fetch error"

FetchDone ==
    /\ fetch.pc = "done"
    /\ fetch.done # <<>>
    /\ fetch' = [fetch EXCEPT
                   !.done = <<>>,
                   !.fetchErr = FetchErrAfterDone(@, Head(fetch.done)),
                   !.pc = "build"]
    /\ UNCHANGED nonFetchVars

\* for i := 0; i < count; i++ { if email, ok := emailsMap[i]; ok { append } }
RECURSIVE InFetchOrder(_, _, _)
InFetchOrder(emailsMap, i, count) ==
    IF i >= count THEN <<>>
    ELSE (IF i \in emailsMap THEN <<i>> ELSE <<>>)
         \o InFetchOrder(emailsMap, i + 1, count)

\* for i, j := 0, len(emails)-1; i < j; i, j = i+1, j-1 { swap }
Reversed(emails) == [k \in 1 .. Len(emails) |-> emails[Len(emails) + 1 - k]]

\* lines 414-430: the list is built, and reversed when fetchErr is nil.
\* count is read without synchronisation: the indexing goroutine may still
\* be running when the workers returned on ctx.Done(), and the value read is
\* the one count has at that moment.
FetchBuild ==
    /\ fetch.pc = "build"
    /\ LET emails == InFetchOrder(fetch.emailsMap, 0, fetch.count)
       IN  fetch' = [fetch EXCEPT
                       !.pc = "returned",
                       !.err = fetch.fetchErr,
                       !.emails = IF fetch.fetchErr # "nil" THEN emails
                                  ELSE Reversed(emails)]
    /\ UNCHANGED nonFetchVars

\* the caller cancels ctx
FetchCancel ==
    /\ ~fetch.ctxDone
    /\ fetch.pc # "returned"
    /\ fetch' = [fetch EXCEPT !.ctxDone = TRUE]
    /\ UNCHANGED nonFetchVars

InitFetch ==
    /\ \E inp \in FetchInputs : FetchEntry(inp[1], inp[2])
    /\ AllAtRestExcept("fetch")

NextFetch ==
    \/ FetchServe
    \/ \E e \in {"nil", "fetch failed"} : FetchReturns(e)
    \/ FetchIndexTakes
    \/ FetchIndex
    \/ FetchIndexEnds
    \/ \E w \in DOMAIN fetch.worker : FetchWorkerTakes(w)
    \/ \E w \in DOMAIN fetch.worker : FetchWorkerEnds(w)
    \/ \E w \in DOMAIN fetch.worker : FetchWorkerCancelled(w)
    \/ \E w \in DOMAIN fetch.worker : FetchWorkerProcess(w)
    \/ FetchCloseResults
    \/ FetchCollect
    \/ FetchCollectEnds
    \/ FetchDone
    \/ FetchBuild
    \/ FetchCancel

SpecFetch == InitFetch /\ [][NextFetch]_vars

\* the steps of the goroutines of fetch and of fetch itself
FetchGoroutineStep ==
    \/ FetchIndexTakes
    \/ FetchIndex
    \/ FetchIndexEnds
    \/ \E w \in DOMAIN fetch.worker : FetchWorkerTakes(w)
    \/ \E w \in DOMAIN fetch.worker : FetchWorkerEnds(w)
    \/ \E w \in DOMAIN fetch.worker : FetchWorkerCancelled(w)
    \/ \E w \in DOMAIN fetch.worker : FetchWorkerProcess(w)
    \/ FetchCloseResults
    \/ FetchCollect
    \/ FetchCollectEnds
    \/ FetchDone
    \/ FetchBuild

\* the Go scheduler runs a goroutine that can take a step
FairFetch == SpecFetch /\ WF_vars(FetchGoroutineStep)

----------------------------------------------------------------------------
(* Properties of fetch *)

\* C17: the list fetch returns is in descending order of fetch index, each
\* index at most once, when it returns nil and when it returns an error.
C17_FetchNewestFirst ==
    fetch.pc = "returned" =>
        \A j, k \in 1 .. Len(fetch.emails) :
            j < k => fetch.emails[j] > fetch.emails[k]

\* the fetch indexes of the parseable messages the server sent that are not
\* in the list fetch returned
MissingFromEmails ==
    {i \in 0 .. Len(fetch.served) - 1 :
        /\ fetch.served[i + 1] = "ok"
        /\ \A k \in 1 .. Len(fetch.emails) : fetch.emails[k] # i}

\* C27: if the context is cancelled while workers still have fetched
\* messages left to process, fetch returns a non-nil error: it never returns
\* nil together with a list from which fetched, parseable messages are
\* missing.
C27_CancelledFetchFails ==
    (fetch.pc = "returned" /\ MissingFromEmails # {}) => fetch.err # "nil"

\* the forwarding goroutine, every worker and the collector have finished
\* and fetch has returned
FetchAllFinished ==
    /\ fetch.messagesClosed
    /\ \A w \in DOMAIN fetch.worker : fetch.worker[w] = "returned"
    /\ fetch.resultsClosed
    /\ fetch.pc = "returned"

\* C28: fetch terminates without leaving a goroutine blocked: for every
\* limit (0 included) and every number of messages the server delivers,
\* once the FETCH command completes, the forwarding goroutine, all workers
\* and the result collector finish and fetch returns, under every
\* interleaving and whether or not the context is cancelled.
C28_FetchTerminates == fetch.fetchClosed ~> FetchAllFinished

----------------------------------------------------------------------------
(* Receiver.Idle, imap/imap.go *)

\* an error is to be written to errChan; the task returns after the write
IdleFails(err) == [imapIdle EXCEPT !.pc = "writeErr", !.err = err]

\* c, tlsOn, err := f.connect(ctx) (lines 254-259)
IdleConnect(ok) ==
    /\ imapIdle.pc = "connect"
    /\ imapIdle' = IF ok
                   THEN [imapIdle EXCEPT !.pc = "authenticate",
                                         !.connected = TRUE]
                   ELSE IdleFails("connect")
    /\ UNCHANGED nonImapIdleVars

\* f.authenticate(ctx, c, tlsOn) (lines 261-264)
IdleAuthenticate(ok) ==
    /\ imapIdle.pc = "authenticate"
    /\ imapIdle' = IF ok THEN [imapIdle EXCEPT !.pc = "select"]
                   ELSE IdleFails("authenticate")
    /\ UNCHANGED nonImapIdleVars

\* c.Select("INBOX", false); on success the IDLE goroutine is started
\* (lines 266-283)
IdleSelect(ok) ==
    /\ imapIdle.pc = "select"
    /\ imapIdle' = IF ok THEN [imapIdle EXCEPT !.pc = "loop", !.idling = TRUE]
                   ELSE IdleFails("select")
    /\ UNCHANGED nonImapIdleVars

\* errChan <- err, then return: blocks while errChan is full
IdleWriteErr ==
    /\ imapIdle.pc = "writeErr"
    /\ Len(imapIdle.errChan.buf) < ErrChanCapacity
    /\ imapIdle' = [imapIdle EXCEPT
                      !.errChan.buf = Append(@, imapIdle.err),
                      !.errWrites = @ + 1,
                      !.pc = IF imapIdle.errChan.closed THEN "panicked"
                             ELSE "return"]
    /\ UNCHANGED nonImapIdleVars

\* done <- idleClient.IdleWithFallback(stop, 29*time.Minute) (line 282)
IdleWithFallbackReturns(e) ==
    /\ imapIdle.idling
    /\ imapIdle' = [imapIdle EXCEPT !.idling = FALSE, !.done = <<e>>]
    /\ UNCHANGED nonImapIdleVars

\* the client library writes a mailbox update to c.Updates
IdleServerUpdate ==
    /\ imapIdle.idling
    /\ imapIdle.updatesSent < MaxUpdates
    /\ imapIdle' = [imapIdle EXCEPT !.updates = @ + 1, !.updatesSent = @ + 1]
    /\ UNCHANGED nonImapIdleVars

\* the loop's select, case <-ctx.Done(): close(stop); return (lines 287-289)
IdleLoopCancelled ==
    /\ imapIdle.pc = "loop"
    /\ imapIdle.ctxDone
    /\ imapIdle' = [imapIdle EXCEPT !.stopClosed = TRUE, !.pc = "return"]
    /\ UNCHANGED nonImapIdleVars

\* the loop's select, case err := <-done (lines 290-294)
IdleLoopDone ==
    /\ imapIdle.pc = "loop"
    /\ imapIdle.done # <<>>
    /\ imapIdle' = IF Head(imapIdle.done) # "nil"
                   THEN [IdleFails("idle error") EXCEPT !.done = <<>>]
                   ELSE [imapIdle EXCEPT !.done = <<>>, !.pc = "return"]
    /\ UNCHANGED nonImapIdleVars

\* the uids n .. n + k - 1, newest first, as fetch returns them
NewestFirst(n, k) == [j \in 1 .. k |-> n + k - j]

\* the loop's select, case update := <-updates (lines 295-316): the search
\* and the fetch find k unseen messages; k = 0 stands for every path that
\* delivers nothing (another kind of update, a failed search or fetch)
IdleLoopUpdate(k) ==
    /\ imapIdle.pc = "loop"
    /\ imapIdle.updates > 0
    /\ imapIdle.nextUid + k - 1 <= MaxUnseen
    /\ imapIdle' = [imapIdle EXCEPT
                      !.updates = @ - 1,
                      !.emails = NewestFirst(imapIdle.nextUid, k),
                      !.nextUid = @ + k,
                      !.pc = IF k = 0 THEN "loop" ELSE "deliver"]
    /\ UNCHANGED nonImapIdleVars

\* select { case emailChan <- e: ... }: blocks while emailChan is full
IdleDeliver ==
    /\ imapIdle.pc = "deliver"
    /\ Len(imapIdle.emailChan.buf) < EmailChanCapacity
    /\ imapIdle' = [imapIdle EXCEPT
                      !.emailChan.buf = Append(@, Head(imapIdle.emails)),
                      !.emails = Tail(@),
                      !.pc = IF Len(imapIdle.emails) = 1 THEN "loop"
                             ELSE "deliver"]
    /\ UNCHANGED nonImapIdleVars

\* select { ... case <-ctx.Done(): return } (lines 309-310)
DeliveryIgnoresCtx(done) == FALSE
DeliveryCancelled(done) == done

IdleDeliverCancelled ==
    /\ imapIdle.pc = "deliver"
    /\ DeliveryCancelled(imapIdle.ctxDone)
    /\ imapIdle' = [imapIdle EXCEPT !.pc = "return",
                                    !.dropped = Len(imapIdle.emails),
                                    !.emails = <<>>]
    /\ UNCHANGED nonImapIdleVars

\* return: the deferred c.Logout() (line 259), registered once connected
IdleLogout ==
    /\ imapIdle.pc = "return"
    /\ imapIdle' = [imapIdle EXCEPT !.pc = "closeErr", !.connected = FALSE]
    /\ UNCHANGED nonImapIdleVars

\* return: defer close(errChan) (line 252)
IdleCloseErr ==
    /\ imapIdle.pc = "closeErr"
    /\ imapIdle' = [imapIdle EXCEPT !.errChan.closed = TRUE,
                                    !.pc = "closeEmail"]
    /\ UNCHANGED nonImapIdleVars

\* return: defer close(emailChan) (line 251)
IdleCloseEmail ==
    /\ imapIdle.pc = "closeEmail"
    /\ imapIdle' = [imapIdle EXCEPT !.emailChan.closed = TRUE,
                                    !.pc = "ended"]
    /\ UNCHANGED nonImapIdleVars

\* the consumer receives from the email stream
IdleReadEmail ==
    /\ imapIdle.emailChan.buf # <<>>
    /\ imapIdle' = [imapIdle EXCEPT !.emailChan.buf = Tail(@)]
    /\ UNCHANGED nonImapIdleVars

\* the consumer receives from the error stream
IdleReadErr ==
    /\ imapIdle.errChan.buf # <<>>
    /\ imapIdle' = [imapIdle EXCEPT !.errChan.buf = Tail(@)]
    /\ UNCHANGED nonImapIdleVars

\* the caller cancels ctx
IdleCancel ==
    /\ ~imapIdle.ctxDone
    /\ imapIdle' = [imapIdle EXCEPT !.ctxDone = TRUE]
    /\ UNCHANGED nonImapIdleVars

InitImapIdle ==
    /\ ImapIdleEntry
    /\ AllAtRestExcept("imapIdle")

\* the steps of the background task
IdleTaskStep ==
    \/ \E ok \in BOOLEAN : IdleConnect(ok)
    \/ \E ok \in BOOLEAN : IdleAuthenticate(ok)
    \/ \E ok \in BOOLEAN : IdleSelect(ok)
    \/ IdleWriteErr
    \/ IdleLoopCancelled
    \/ IdleLoopDone
    \/ \E k \in 0 .. MaxUnseen : IdleLoopUpdate(k)
    \/ IdleDeliver
    \/ IdleDeliverCancelled
    \/ IdleLogout
    \/ IdleCloseErr
    \/ IdleCloseEmail

NextImapIdle ==
    \/ \E ok \in BOOLEAN : IdleConnect(ok)
    \/ \E ok \in BOOLEAN : IdleAuthenticate(ok)
    \/ \E ok \in BOOLEAN : IdleSelect(ok)
    \/ IdleWriteErr
    \/ \E e \in {"nil", "EOF"} : IdleWithFallbackReturns(e)
    \/ IdleServerUpdate
    \/ IdleLoopCancelled
    \/ IdleLoopDone
    \/ \E k \in 0 .. MaxUnseen : IdleLoopUpdate(k)
    \/ IdleDeliver
    \/ IdleDeliverCancelled
    \/ IdleLogout
    \/ IdleCloseErr
    \/ IdleCloseEmail
    \/ IdleReadEmail
    \/ IdleReadErr
    \/ IdleCancel

SpecImapIdle == InitImapIdle /\ [][NextImapIdle]_vars

\* the background task keeps running while it can take a step; every call it
\* makes into the client library returns
FairImapIdle == SpecImapIdle /\ WF_vars(IdleTaskStep)

----------------------------------------------------------------------------
(* Properties of Idle *)

IdleStreamsClosed == imapIdle.emailChan.closed /\ imapIdle.errChan.closed

\* C18: at most one error is written to the error stream, and the write
\* never finds it full or closed; when the task has ended both streams are
\* closed; nothing is written to the error stream once it is closed; a task
\* blocked delivering an email returns and closes both streams once ctx is
\* cancelled, whether or not the consumer reads.
C18_IdleClosesStreams ==
    /\ [](imapIdle.errWrites <= 1)
    /\ [](imapIdle.pc = "writeErr" =>
            /\ Len(imapIdle.errChan.buf) < ErrChanCapacity
            /\ ~imapIdle.errChan.closed)
    /\ [](imapIdle.pc # "panicked")
    /\ [](imapIdle.pc = "ended" => IdleStreamsClosed)
    /\ [][imapIdle.errChan.closed =>
            imapIdle'.errWrites = imapIdle.errWrites]_vars
    /\ ((imapIdle.pc = "deliver" /\ imapIdle.ctxDone) ~> IdleStreamsClosed)

C18_Witness ==
    /\ imapIdle.pc = "ended"
    /\ IdleStreamsClosed
    /\ imapIdle.ctxDone
    /\ Len(imapIdle.emailChan.buf) = EmailChanCapacity
    /\ imapIdle.dropped > 0

----------------------------------------------------------------------------
(* POP3 Receiver.receive, pop3/pop3.go *)

\* return emails, err; the deferred conn.Quit() runs once the connection
\* was made (line 77)
PopReturn(emails, err, connected) ==
    [pop EXCEPT !.pc = "returned", !.emails = emails, !.err = err,
                !.quit = IF connected THEN @ + 1 ELSE @]

\* conn, err := p.NewConn() (lines 73-77)
PopDial(ok) ==
    /\ pop.pc = "dial"
    /\ pop' = IF ok THEN [pop EXCEPT !.pc = "auth"]
              ELSE PopReturn(<<>>, "pop3 dial", FALSE)
    /\ UNCHANGED nonPopVars

\* conn.Auth(f.Username, f.Password) (lines 79-81)
PopAuth(ok) ==
    /\ pop.pc = "auth"
    /\ pop' = IF ok THEN [pop EXCEPT !.pc = "stat"]
              ELSE PopReturn(<<>>, "pop3 auth", TRUE)
    /\ UNCHANGED nonPopVars

\* end := count - limit + 1; if end < 1 { end = 1 } (lines 93-96)
EndTooLow(count, limit) == IF count - limit < 1 THEN 1 ELSE count - limit
End(count, limit) == IF count - limit + 1 < 1 THEN 1 ELSE count - limit + 1

\* count, _, err := conn.Stat(); if count == 0 { return nil, nil };
\* start := count (lines 83-98)
PopStat(ok) ==
    /\ pop.pc = "stat"
    /\ pop' = IF ~ok THEN PopReturn(<<>>, "pop3 stat", TRUE)
              ELSE IF pop.mailbox = 0
              THEN PopReturn(<<>>, "nil", TRUE)
              ELSE [pop EXCEPT !.pc = "loop", !.count = pop.mailbox,
                               !.i = pop.mailbox]
    /\ UNCHANGED nonPopVars

\* for ...; i >= end; ... { select { case <-ctx.Done(): return emails,
\* ctx.Err(); default: } (lines 99-105), and return emails, nil (line 121)
PopLoop ==
    /\ pop.pc = "loop"
    /\ pop' = IF pop.i < End(pop.count, pop.limit)
              THEN PopReturn(pop.emails, "nil", TRUE)
              ELSE IF pop.ctxDone
              THEN [PopReturn(pop.emails, "context.Canceled", TRUE)
                      EXCEPT !.log = Append(@, <<"ctx", pop.i, "done">>)]
              ELSE [pop EXCEPT !.pc = "retr",
                               !.log = Append(@, <<"ctx", pop.i, "live">>)]
    /\ UNCHANGED nonPopVars

\* buf, err := conn.RetrRaw(i); email, err := gsmail.ParseRawEmail(...)
\* (lines 109-118) and i-- (line 99)
PopRetr(outcome) ==
    /\ pop.pc = "retr"
    /\ LET logged == Append(pop.log, <<"RETR", pop.i, outcome>>)
       IN  pop' =
             IF outcome = "failed"
             THEN [PopReturn(pop.emails, "pop3 retr", TRUE)
                     EXCEPT !.log = logged]
             ELSE [pop EXCEPT
                     !.pc = "loop",
                     !.log = logged,
                     !.i = @ - 1,
                     !.emails = IF outcome = "parsed" THEN Append(@, pop.i)
                                ELSE @]
    /\ UNCHANGED nonPopVars

\* the caller cancels ctx
PopCancel ==
    /\ ~pop.ctxDone
    /\ pop.pc # "returned"
    /\ pop' = [pop EXCEPT !.ctxDone = TRUE]
    /\ UNCHANGED nonPopVars

InitPop ==
    /\ \E limit \in 0 .. MaxPopLimit, count \in 0 .. MaxCount :
          PopEntry(limit, count)
    /\ AllAtRestExcept("pop")

NextPop ==
    \/ \E ok \in BOOLEAN : PopDial(ok)
    \/ \E ok \in BOOLEAN : PopAuth(ok)
    \/ \E ok \in BOOLEAN : PopStat(ok)
    \/ PopLoop
    \/ \E outcome \in {"failed", "unparsable", "parsed"} : PopRetr(outcome)
    \/ PopCancel

SpecPop == InitPop /\ [][NextPop]_vars

----------------------------------------------------------------------------
(* Properties of POP3 receive *)

IsRetr(ev) == ev[1] = "RETR"

\* the RETR commands issued so far
Retrs == SelectSeq(pop.log, IsRetr)

\* count, count - 1, ..., max(1, count - limit + 1)
NewestDown(count, limit) ==
    [k \in 1 .. Min(limit, count) |-> count + 1 - k]

IsParsed(ev) == ev[1] = "RETR" /\ ev[3] = "parsed"

\* the message numbers of the retrievals that parsed, in order
ParsedSoFar ==
    LET evs == SelectSeq(pop.log, IsParsed)
    IN  [k \in 1 .. Len(evs) |-> evs[k][2]]

\* C19: with limit >= 1 and count >= 1 messages, the RETR commands are for
\* count, count - 1, ... down to max(1, count - limit + 1), in this order,
\* each right after a check of ctx that found it live: always a prefix of
\* that list, and the whole list when receive returns nil.  The list returned
\* holds the parsed ones of them in that order.  When a check finds ctx
\* cancelled, receive returns the messages collected so far with the
\* cancellation error and issues no further RETR.
C19_PopNewestFirst ==
    (pop.limit >= 1 /\ pop.count >= 1) =>
        LET expected == NewestDown(pop.count, pop.limit)
        IN  /\ Len(Retrs) <= Len(expected)
            /\ \A k \in 1 .. Len(Retrs) : Retrs[k][2] = expected[k]
            /\ \A k \in 1 .. Len(pop.log) :
                  IsRetr(pop.log[k]) =>
                      /\ k > 1
                      /\ pop.log[k - 1] = <<"ctx", pop.log[k][2], "live">>
            /\ pop.emails = ParsedSoFar
            /\ Len(pop.emails) <= Min(pop.limit, pop.count)
            /\ (pop.pc = "returned" /\ pop.err = "nil")
                  => Len(Retrs) = Len(expected)
            /\ \A k \in 1 .. Len(pop.log) :
                  pop.log[k][3] = "done" =>
                      /\ k = Len(pop.log)
                      /\ pop.pc = "returned"
                      /\ pop.err = "context.Canceled"

C19_Witness ==
    /\ pop.pc = "returned"
    /\ pop.err = "context.Canceled"
    /\ pop.limit = 3
    /\ pop.count = 3
    /\ pop.emails = <<3>>
    /\ Len(Retrs) = 2

----------------------------------------------------------------------------
(* ValidateEmailExistence, utils.go *)

MxHosts == 1 .. MaxMx

\* if !IsValidEmail(email) { return ... }; if IsDisposableEmail(email)
\* { return ... } (lines 267-273)
ValidationCheck ==
    /\ validation.pc = "check"
    /\ validation' =
         IF ~validation.valid
         THEN [validation EXCEPT !.pc = "returned",
                                 !.err = <<"invalid email format">>]
         ELSE IF validation.disposable
         THEN [validation EXCEPT !.pc = "returned",
                                 !.err = <<"disposable">>]
         ELSE [validation EXCEPT !.pc = "lookup"]
    /\ UNCHANGED nonValidationVars

\* mxs, err := lookupMX(ctx, domain) fails (lines 278-281)
ValidationLookupFails ==
    /\ validation.pc = "lookup"
    /\ validation' = [validation EXCEPT !.pc = "returned",
                                        !.lookups = @ + 1,
                                        !.err = <<"lookup mx">>]
    /\ UNCHANGED nonValidationVars

\* mxs, err := lookupMX(ctx, domain) answers mxs (lines 278-284)
ValidationLookup(mxs) ==
    /\ validation.pc = "lookup"
    /\ validation' =
         IF Len(mxs) = 0
         THEN [validation EXCEPT !.pc = "returned",
                                 !.lookups = @ + 1,
                                 !.err = <<"no mx records found">>]
         ELSE [validation EXCEPT !.pc = "probe",
                                 !.lookups = @ + 1,
                                 !.mxs = mxs]
    /\ UNCHANGED nonValidationVars

\* the error of the probe of the host at position k of mxs
ProbeErr(k, host) == <<"probe", k, host>>

\* lastErr = err (line 292)
FirstErr(last, err) == IF last = <<"nil">> THEN err ELSE last
LastErr(last, err) == err

\* one round of  for _, mx := range mxs  (lines 287-294) and, after the last
\* round, the return of line 296; ok: verifyExistence returned nil
ValidationAfterProbe(ok) ==
    LET k == validation.next
        host == validation.mxs[k]
        probed == Append(validation.probes, [host |-> host, ok |-> ok])
        last == LastErr(validation.lastErr, ProbeErr(k, host))
    IN  IF ok
        THEN [validation EXCEPT !.pc = "returned",
                                !.probes = probed,
                                !.err = <<"nil">>]
        ELSE IF k = Len(validation.mxs)
        THEN [validation EXCEPT
                !.pc = "returned",
                !.probes = probed,
                !.lastErr = last,
                !.err = <<"could not verify email existence">> \o last]
        ELSE [validation EXCEPT !.probes = probed,
                                !.lastErr = last,
                                !.next = k + 1]

ValidationProbe(ok) ==
    /\ validation.pc = "probe"
    /\ validation' = ValidationAfterProbe(ok)
    /\ UNCHANGED nonValidationVars

InitValidation ==
    /\ \E valid \in BOOLEAN, disposable \in BOOLEAN :
          ValidationEntry(valid, disposable)
    /\ AllAtRestExcept("validation")

NextValidation ==
    \/ ValidationCheck
    \/ ValidationLookupFails
    \/ \E mxs \in SeqsUpTo(MxHosts, MaxMx) : ValidationLookup(mxs)
    \/ \E ok \in BOOLEAN : ValidationProbe(ok)

SpecValidation == InitValidation /\ [][NextValidation]_vars

----------------------------------------------------------------------------
(* Properties of ValidateEmailExistence *)

\* C20: the probes go to the MX hosts in the order of the lookup's answer; a
\* probe that succeeds is the last one and the call returns nil; when every
\* probe fails the call returns an error wrapping the error of the last host
\* probed; a malformed or disposable address causes no lookup and no probe; a
\* failed or empty lookup causes no probe.
C20_ProbesInMxOrder ==
    LET v == validation
        n == Len(v.probes)
    IN  /\ n <= Len(v.mxs)
        /\ \A k \in 1 .. n : v.probes[k].host = v.mxs[k]
        /\ \A k \in 1 .. n :
              v.probes[k].ok =>
                  /\ k = n
                  /\ v.pc = "returned"
                  /\ v.err = <<"nil">>
        /\ (v.pc = "returned" /\ v.err = <<"nil">>) =>
              (n >= 1 /\ v.probes[n].ok)
        /\ (v.pc = "returned" /\ n >= 1 /\ ~v.probes[n].ok) =>
              /\ n = Len(v.mxs)
              /\ v.err = <<"could not verify email existence">>
                         \o ProbeErr(n, v.mxs[n])
        /\ (~v.valid \/ v.disposable) => (v.lookups = 0 /\ n = 0)
        /\ v.lookups <= 1
        /\ (v.pc = "returned"
            /\ v.err \in {<<"lookup mx">>, <<"no mx records found">>})
              => (v.lookups = 1 /\ n = 0)
        /\ (v.pc = "returned" /\ n = 0) =>
              v.err \in {<<"invalid email format">>, <<"disposable">>,
                         <<"lookup mx">>, <<"no mx records found">>}

C20_Witness ==
    /\ validation.pc = "returned"
    /\ validation.mxs = <<2, 1, 3>>
    /\ Len(validation.probes) = 3
    /\ validation.err =
         <<"could not verify email existence">> \o ProbeErr(3, 3)

----------------------------------------------------------------------------
(* Send of the signing Senders: smtp/smtp.go and the ses package, under Retry *)

\* Send returns err
SendingReturns(err) == [sending EXCEPT !.pc = "done", !.err = err]

\* the closure given to Retry returned err (provider.go, lines 75-87)
SendingFnFailed(s, err) ==
    IF IsLastAttempt(s.i, s.MaxRetries)
    THEN [s EXCEPT !.pc = "done", !.lastErr = err, !.err = err]
    ELSE [s EXCEPT !.pc = "wait", !.lastErr = err]

\* SMTP: gsmail.BuildMessage(bufPtr, email), before Retry (smtp.go line 60)
SmtpBuildMessage ==
    /\ sending.pc = "build"
    /\ sending' = [sending EXCEPT !.builds = @ + 1,
                                  !.pc = IF sending.dkim THEN "sign"
                                         ELSE "check"]
    /\ UNCHANGED nonSendingVars

\* SMTP: gsmail.SignDKIM, before Retry (smtp.go lines 63-69)
SmtpSignDKIM(ok) ==
    /\ sending.pc = "sign"
    /\ sending' = IF ok
                  THEN [sending EXCEPT !.signs = @ + 1, !.pc = "check"]
                  ELSE [SendingReturns("dkim sign") EXCEPT !.signs = @ + 1]
    /\ UNCHANGED nonSendingVars

\* Retry: the loop condition is false, return lastErr
SendingLoopExit ==
    /\ sending.pc = "check"
    /\ ~LoopContinues(sending.i, sending.MaxRetries)
    /\ sending' = SendingReturns(sending.lastErr)
    /\ UNCHANGED nonSendingVars

\* Retry: ctx is cancelled before the attempt
SendingCheckCancelled ==
    /\ sending.pc = "check"
    /\ LoopContinues(sending.i, sending.MaxRetries)
    /\ ~AttemptMayStart(sending.ctxDone)
    /\ sending' = SendingReturns("context.Canceled")
    /\ UNCHANGED nonSendingVars

\* Retry: fn() is invoked; the SES closure begins with p.getClient(ctx)
SendingInvoke ==
    /\ sending.pc = "check"
    /\ LoopContinues(sending.i, sending.MaxRetries)
    /\ AttemptMayStart(sending.ctxDone)
    /\ sending' = [sending EXCEPT
                     !.pc = IF sending.provider = "smtp" THEN "transport"
                            ELSE "getClient"]
    /\ UNCHANGED nonSendingVars

\* SES closure: client, err := p.getClient(ctx), and the choice between a
\* simple and a raw message (ses, lines 92-114)
SesGetClient(ok) ==
    /\ sending.pc = "getClient"
    /\ sending' = IF ~ok THEN SendingFnFailed(sending, "get ses client")
                  ELSE [sending EXCEPT !.pc = IF sending.raw THEN "fnBuild"
                                               ELSE "transport"]
    /\ UNCHANGED nonSendingVars

\* SES closure: gsmail.BuildMessage(bufPtr, email) (ses, line 138)
SesBuildMessage ==
    /\ sending.pc = "fnBuild"
    /\ sending' = [sending EXCEPT !.builds = @ + 1,
                                  !.pc = IF sending.dkim THEN "fnSign"
                                         ELSE "transport"]
    /\ UNCHANGED nonSendingVars

\* SES closure: gsmail.SignDKIM (ses, lines 141-147)
SesSignDKIM(ok) ==
    /\ sending.pc = "fnSign"
    /\ sending' =
         IF ok THEN [sending EXCEPT !.signs = @ + 1, !.pc = "transport"]
         ELSE SendingFnFailed([sending EXCEPT !.signs = @ + 1], "dkim sign")
    /\ UNCHANGED nonSendingVars

\* the transport attempt: the SMTP submission (smtp.go lines 78-113) or
\* client.SendEmail (ses, lines 154-159)
SendingTransport(ok) ==
    /\ sending.pc = "transport"
    /\ sending' =
         IF ok THEN [SendingReturns("nil") EXCEPT !.transports = @ + 1]
         ELSE SendingFnFailed([sending EXCEPT !.transports = @ + 1],
                              "transport")
    /\ UNCHANGED nonSendingVars

\* Retry: the wait's select takes the ctx.Done() case
SendingWaitCancelled ==
    /\ sending.pc = "wait"
    /\ sending.ctxDone
    /\ sending' = SendingReturns("context.Canceled")
    /\ UNCHANGED nonSendingVars

\* Retry: the wait's select takes the time.After case; i++
SendingWaitElapsed ==
    /\ sending.pc = "wait"
    /\ sending' = [sending EXCEPT !.waits = @ + 1, !.i = @ + 1,
                                  !.pc = "check"]
    /\ UNCHANGED nonSendingVars

\* the caller cancels ctx
SendingCancel ==
    /\ sending.pc # "done"
    /\ ~sending.ctxDone
    /\ sending' = [sending EXCEPT !.ctxDone = TRUE]
    /\ UNCHANGED nonSendingVars

InitSending ==
    /\ \E provider \in {"smtp", "ses"}, dkim \in BOOLEAN, raw \in BOOLEAN,
          maxRetries \in -1 .. MaxRetriesBound :
          SendingEntry(provider, dkim, raw, maxRetries)
    /\ AllAtRestExcept("sending")

NextSending ==
    \/ SmtpBuildMessage
    \/ \E ok \in BOOLEAN : SmtpSignDKIM(ok)
    \/ SendingLoopExit
    \/ SendingCheckCancelled
    \/ SendingInvoke
    \/ \E ok \in BOOLEAN : SesGetClient(ok)
    \/ SesBuildMessage
    \/ \E ok \in BOOLEAN : SesSignDKIM(ok)
    \/ \E ok \in BOOLEAN : SendingTransport(ok)
    \/ SendingWaitCancelled
    \/ SendingWaitElapsed
    \/ SendingCancel

SpecSending == InitSending /\ [][NextSending]_vars

----------------------------------------------------------------------------
(* Properties of Send of the signing Senders *)

\* C21: one call of Send calls BuildMessage and SignDKIM at most once each,
\* however many transport attempts it makes, and a Send that returns the
\* DKIM signing failure has signed once and waited for no backoff.
C21_SignedOnce ==
    /\ sending.builds <= 1
    /\ sending.signs <= 1
    /\ (sending.pc = "done" /\ sending.err = "dkim sign") =>
          (sending.signs = 1 /\ sending.waits = 0)

----------------------------------------------------------------------------
(* verifyExistence, utils.go *)

\* commands := []func() error{Hello, Mail, Rcpt} (lines 316-320)
ProbeCommands == <<"HELO", "MAIL FROM", "RCPT TO">>

\* return err: the deferred client.Close() (line 314) and conn.Close()
\* (line 304) run, the later one first
ProbeReturns(p, err) ==
    [p EXCEPT !.pc = "returned",
              !.err = err,
              !.closes = IF p.session THEN <<"client.Close", "conn.Close">>
                         ELSE IF p.pc = "dial" THEN <<>>
                         ELSE <<"conn.Close">>]

\* conn, err := dialer.DialContext(ctx, "tcp", addr) (lines 300-304)
ProbeDial(ok) ==
    /\ probe.pc = "dial"
    /\ probe' = IF ok THEN [probe EXCEPT !.pc = "newClient"]
                ELSE ProbeReturns(probe, "dial")
    /\ UNCHANGED nonProbeVars

\* client, err := smtp.NewClient(conn, host) (lines 306-314)
ProbeNewClient(ok) ==
    /\ probe.pc = "newClient"
    /\ probe' = IF ok THEN [probe EXCEPT !.pc = "commands", !.session = TRUE]
                ELSE ProbeReturns(probe, "new client")
    /\ UNCHANGED nonProbeVars

\* one round of  for _, cmd := range commands  (lines 322-326)
ProbeCommand(ok) ==
    /\ probe.pc = "commands"
    /\ LET cmd == ProbeCommands[probe.next]
           logged == [probe EXCEPT !.log = Append(@, cmd)]
       IN  probe' =
             IF ~ok THEN ProbeReturns(logged, cmd)
             ELSE IF probe.next = Len(ProbeCommands)
             THEN [logged EXCEPT !.pc = "quit"]
             ELSE [logged EXCEPT !.next = @ + 1]
    /\ UNCHANGED nonProbeVars

\* _ = client.Quit(); return nil (lines 328-329)
ProbeQuit(ok) ==
    /\ probe.pc = "quit"
    /\ probe' = ProbeReturns([probe EXCEPT !.log = Append(@, "QUIT")], "nil")
    /\ UNCHANGED nonProbeVars

\* verifyExistence returned to the loop of ValidateEmailExistence (utils.go,
\* line 289), which goes on as ValidationProbe does
ProbeHandsBack ==
    /\ probe.pc = "returned"
    /\ validation.pc = "probe"
    /\ validation' = ValidationAfterProbe(probe.err = "nil")
    /\ probe' = [probe EXCEPT !.pc = IF validation'.pc = "probe" THEN "dial"
                                     ELSE "idle",
                              !.session = FALSE,
                              !.next = 1,
                              !.log = <<>>,
                              !.closes = <<>>,
                              !.err = "none"]
    /\ UNCHANGED nonExistenceVars

\* the probes are the ones ValidateEmailExistence makes of the MX hosts of a
\* well-formed address
InitProbe ==
    /\ ProbeEntry
    /\ AllAtRestExcept("probe")

NextProbe ==
    \/ ValidationCheck
    \/ ValidationLookupFails
    \/ \E mxs \in SeqsUpTo(MxHosts, MaxMx) : ValidationLookup(mxs)
    \/ \E ok \in BOOLEAN : validation.pc = "probe" /\ ProbeDial(ok)
    \/ \E ok \in BOOLEAN : ProbeNewClient(ok)
    \/ \E ok \in BOOLEAN : ProbeCommand(ok)
    \/ \E ok \in BOOLEAN : ProbeQuit(ok)
    \/ ProbeHandsBack

SpecProbe == InitProbe /\ [][NextProbe]_vars

----------------------------------------------------------------------------
(* Properties of verifyExistence *)

\* C22: a probe that established a client session has issued QUIT, as its
\* last command, when its connection is closed, whichever of HELO, MAIL FROM
\* and RCPT TO failed; the outcome of QUIT does not change the result.
C22_ProbeAlwaysQuits ==
    /\ (probe.session /\ probe.closes # <<>>) =>
          (probe.log # <<>> /\ probe.log[Len(probe.log)] = "QUIT")
    /\ (probe.pc = "returned" /\ probe.log # <<>>
        /\ probe.log[Len(probe.log)] = "QUIT") => probe.err = "nil"

----------------------------------------------------------------------------
(* Sender.getClient, ses/ses.go *)

\* if p.client != nil, under the write lock (line 53)
RecheckFindsNever(client) == FALSE
RecheckFinds(client) == client # 0

\* Send or Ping calls p.getClient(ctx): p.mu.RLock() (line 42); a read lock
\* is granted while no goroutine holds the write lock
GetClientRLock(g) ==
    /\ sesClient.pc[g] = "idle"
    /\ sesClient.calls[g] < MaxCalls
    /\ sesClient.writer = 0
    /\ sesClient' = [sesClient EXCEPT !.pc[g] = "rlocked",
                                      !.calls[g] = @ + 1,
                                      !.got[g] = 0,
                                      !.readers = @ \cup {g}]
    /\ UNCHANGED nonGetClientVars

\* lines 43-48: if p.client != nil return it; p.mu.RUnlock() either way
GetClientRCheck(g) ==
    /\ sesClient.pc[g] = "rlocked"
    /\ sesClient' = IF sesClient.client # 0
                    THEN [sesClient EXCEPT !.pc[g] = "idle",
                                           !.got[g] = sesClient.client,
                                           !.readers = @ \ {g}]
                    ELSE [sesClient EXCEPT !.pc[g] = "lock",
                                           !.readers = @ \ {g}]
    /\ UNCHANGED nonGetClientVars

\* p.mu.Lock() (line 50): granted while no goroutine holds either lock
GetClientLock(g) ==
    /\ sesClient.pc[g] = "lock"
    /\ sesClient.writer = 0
    /\ sesClient.readers = {}
    /\ sesClient' = [sesClient EXCEPT !.pc[g] = "locked", !.writer = g]
    /\ UNCHANGED nonGetClientVars

\* lines 53-55: the second check, and the deferred p.mu.Unlock()
GetClientRecheck(g) ==
    /\ sesClient.pc[g] = "locked"
    /\ sesClient' = IF RecheckFinds(sesClient.client)
                    THEN [sesClient EXCEPT !.pc[g] = "idle",
                                           !.got[g] = sesClient.client,
                                           !.writer = 0]
                    ELSE [sesClient EXCEPT !.pc[g] = "load"]
    /\ UNCHANGED nonGetClientVars

\* lines 57-71: config.LoadDefaultConfig fails and getClient returns the
\* error (got = -1: no client), or p.client = sesv2.NewFromConfig(...); the
\* deferred p.mu.Unlock()
GetClientLoad(g, ok) ==
    /\ sesClient.pc[g] = "load"
    /\ sesClient' = IF ok
                    THEN [sesClient EXCEPT !.pc[g] = "idle",
                                           !.client = sesClient.built + 1,
                                           !.built = @ + 1,
                                           !.got[g] = sesClient.built + 1,
                                           !.writer = 0]
                    ELSE [sesClient EXCEPT !.pc[g] = "idle",
                                           !.failed = @ + 1,
                                           !.got[g] = -1,
                                           !.writer = 0]
    /\ UNCHANGED nonGetClientVars

InitGetClient ==
    /\ GetClientEntry
    /\ AllAtRestExcept("getClient")

NextGetClient ==
    \/ \E g \in Callers : GetClientRLock(g)
    \/ \E g \in Callers : GetClientRCheck(g)
    \/ \E g \in Callers : GetClientLock(g)
    \/ \E g \in Callers : GetClientRecheck(g)
    \/ \E g \in Callers, ok \in BOOLEAN : GetClientLoad(g, ok)

SpecGetClient == InitGetClient /\ [][NextGetClient]_vars

\* C30: under any interleaving of concurrent first uses of one SES Sender
\* the client is successfully constructed at most once and every caller
\* that obtains a client obtains that same client; a failed construction
\* stores nothing, so that a later call attempts construction again.
C30_ClientBuiltOnce ==
    /\ sesClient.built <= 1
    /\ \A g \in Callers : sesClient.got[g] > 0 => sesClient.got[g] = sesClient.client
    /\ \A g, h \in Callers :
          (sesClient.got[g] > 0 /\ sesClient.got[h] > 0) =>
              sesClient.got[g] = sesClient.got[h]
    /\ sesClient.built = 0 => sesClient.client = 0
    /\ \A g \in Callers : sesClient.pc[g] = "load" => sesClient.client = 0

\* one caller's construction failed, a later call constructed the client,
\* and both callers have obtained it
C30_Witness ==
    /\ sesClient.failed >= 1
    /\ sesClient.built = 1
    /\ \A g \in Callers : sesClient.got[g] = sesClient.client
    /\ \E g \in Callers : sesClient.calls[g] = 2

====
